---------------------------- MODULE Spec2Model ----------------------------
(***************************************************************************)
(* Event recording, webhook fan-out, signed delivery with retry, the       *)
(* signature primitive, the message lifecycle and the email parser of the  *)
(* zimuzo backend.                                                         *)
(*                                                                         *)
(*   Spec         the Event Recorder and Delivery Scheduler                *)
(*                (app/core/events.py) over the events and webhooks tables *)
(*   SpecDeliver  the Delivery Worker (app/workers/tasks_webhooks.py) and  *)
(*                the signature primitive (app/core/security.py)           *)
(*   FairDeliver  SpecDeliver with the broker's scheduling fairness        *)
(*   SpecPipeline the recorder and the workers over one database           *)
(*   SpecPeers    the deliveries of one event, in flight together          *)
(*   SpecSign     sign_webhook_payload and verify_webhook on their inputs  *)
(*   SpecLifecycle send_message, send_email_task and the inbound handler   *)
(*                over the messages and events tables                      *)
(*   SpecParse    EmailParser.parse with its fallback calls                *)
(*                (app/services/email_parser.py)                           *)
(*   SpecExtract  the fallback and merge functions on their inputs         *)
(*   SpecRegex    the regex engine on the matches of a text                *)
(*   SpecOrder    an outbound message with the deliveries of its events    *)
(*                in flight                                                *)
(***************************************************************************)
EXTENDS Integers, Sequences, FiniteSets, TLC

VARIABLES
    events,      \* committed rows of table "events"
    webhooks,    \* committed rows of table "webhooks"
    session,     \* the recorder call's db session: the objects added, not yet committed
    call,        \* the frame of the store_event_and_queue_webhooks(_sync) call
    task,        \* the broker's deliver_webhook_task messages, in enqueue order, each
                 \* with the state of its execution
    httpx_compact, \* whether the installed httpx encodes json= bodies compactly
    check,       \* the last application of sign_webhook_payload / verify_webhook
    messages,    \* committed rows of table "messages": the status of each message
    frames,      \* the frames of send_message, send_email_task (with its broker
                 \* message) and handle_resend_inbound
    parser       \* the frame of EmailParser.parse, or the last application of
                 \* one of the parser's functions

vars ==
    <<events, webhooks, session, call, task, httpx_compact, check, messages, frames,
      parser>>

----------------------------------------------------------------------------
(* Bounds of the model *)

MaxCalls == 1
MaxWebhooks == 2
MaxTasks == 1
MaxPeers == 2
MaxMatches == 3

(* Program constants *)

max_retries == 8
backoff_base == 2
send_max_retries == 5
MAX_CODES == 10
MAX_LINKS == 20
MAX_URL_LENGTH == 2000
DEFAULT_CONFIDENCE == 80
LLM_THRESHOLD == 70

----------------------------------------------------------------------------
(* Values *)

None == "None"

Inboxes == {"inbox1", "inbox2"}
Messages == {"m1"}

\* The endpoints tenants register: one unsigned, one with a signing secret.
Endpoints ==
    { [target_url |-> "https://a.example/hook", secret_token |-> None],
      [target_url |-> "https://b.example/hook", secret_token |-> "k1"] }

\* Payload dicts as the callers build them: key/value pairs in insertion order.
PayloadSent == << <<"message_id", "m1">>, <<"resend_id", "r1">> >>
PayloadFailed == << <<"message_id", "m1">>, <<"error", "boom">> >>

Emissions ==
    { [event_type |-> "message.sent", payload |-> PayloadSent],
      [event_type |-> "message.failed", payload |-> PayloadFailed] }

Payloads == {e.payload : e \in Emissions}

\* send_message's payload of message.queued, handle_resend_inbound's of
\* message.received.
PayloadQueued ==
    << <<"message_id", "m1">>, <<"status", "queued">>, <<"from", "agent@zimuzo.dev">>,
       <<"to", "user@example.com">>, <<"subject", "hello">> >>
PayloadReceived == << <<"message_id", "m2">>, <<"resource_id", "re1">> >>

\* Lexicographic order of the keys in use, as str comparison gives it.
KeyOrder ==
    <<"error", "from", "message_id", "resend_id", "resource_id", "status",
      "subject", "to">>

KeyRank(k) == CHOOSE i \in 1..Len(KeyOrder) : KeyOrder[i] = k

----------------------------------------------------------------------------
(* JSON serialisation: a byte string is a sequence of tokens *)

RECURSIVE InsertSorted(_, _)
InsertSorted(item, sorted) ==
    IF sorted = <<>> THEN <<item>>
    ELSE IF KeyRank(item[1]) < KeyRank(Head(sorted)[1])
         THEN <<item>> \o sorted
         ELSE <<Head(sorted)>> \o InsertSorted(item, Tail(sorted))

RECURSIVE SortItems(_)
SortItems(d) ==
    IF d = <<>> THEN <<>>
    ELSE InsertSorted(Head(d), SortItems(Tail(d)))

RECURSIVE JoinItems(_, _, _)
JoinItems(d, item_sep, key_sep) ==
    IF d = <<>> THEN <<>>
    ELSE <<Head(d)[1]>> \o key_sep \o <<Head(d)[2]>>
         \o (IF Tail(d) = <<>> THEN <<>> ELSE item_sep)
         \o JoinItems(Tail(d), item_sep, key_sep)

\* json.dumps(obj, separators=(item_sep, key_sep), sort_keys=sort_keys)
json_dumps(obj, item_sep, key_sep, sort_keys) ==
    <<"{">> \o JoinItems(IF sort_keys THEN SortItems(obj) ELSE obj, item_sep, key_sep)
    \o <<"}">>

CompactSeparators == << <<",">>, <<":">> >>
DefaultSeparators == << <<",", " ">>, <<":", " ">> >>

----------------------------------------------------------------------------
(* app/core/security.py *)

\* hmac.new(key, message, sha256).hexdigest(): an ideal MAC, one digest per
\* (key, message); the empty string is the empty sequence.
hmac_hexdigest(key, message) == <<key, message>>

\* Mutant: the empty secret is used as an HMAC key like any other.
sign_with_any_secret(payload, secret) ==
    hmac_hexdigest(secret,
        json_dumps(payload, CompactSeparators[1], CompactSeparators[2], TRUE))

\* Mutant: the keys are serialised in insertion order.
sign_unsorted(payload, secret) ==
    IF secret = "" THEN <<>>
    ELSE hmac_hexdigest(secret,
            json_dumps(payload, CompactSeparators[1], CompactSeparators[2], FALSE))

\* sign_webhook_payload(payload, secret)
sign_webhook_payload(payload, secret) ==
    IF secret = "" THEN <<>>
    ELSE hmac_hexdigest(secret,
            json_dumps(payload, CompactSeparators[1], CompactSeparators[2], TRUE))

\* hmac.compare_digest(a, b)
compare_digest(a, b) == a = b

IsPunctuation(tok) == tok \in {"{", "}", ":", ",", " "}

\* dict[k] = v: a new key goes last, a known key keeps its place.
DictSet(d, k, v) ==
    IF \E i \in 1..Len(d) : d[i][1] = k
    THEN [i \in 1..Len(d) |-> IF d[i][1] = k THEN <<k, v>> ELSE d[i]]
    ELSE Append(d, <<k, v>>)

\* The members between the braces, parsed left to right into dict d.
RECURSIVE ParseMembers(_, _)
ParseMembers(toks, d) ==
    IF Len(toks) < 3 \/ IsPunctuation(toks[1]) \/ toks[2] # ":" \/ IsPunctuation(toks[3])
    THEN [ok |-> FALSE, value |-> <<>>]
    ELSE LET d2 == DictSet(d, toks[1], toks[3])
         IN IF Len(toks) = 3 THEN [ok |-> TRUE, value |-> d2]
            ELSE IF toks[4] # "," THEN [ok |-> FALSE, value |-> <<>>]
            ELSE ParseMembers(SubSeq(toks, 5, Len(toks)), d2)

\* json.loads(raw): whitespace between tokens is insignificant; ok is FALSE
\* where json.loads raises JSONDecodeError.
json_loads(raw) ==
    LET toks == SelectSeq(raw, LAMBDA tok : tok # " ")
    IN IF Len(toks) < 2 \/ toks[1] # "{" \/ toks[Len(toks)] # "}"
       THEN [ok |-> FALSE, value |-> <<>>]
       ELSE IF Len(toks) = 2 THEN [ok |-> TRUE, value |-> <<>>]
       ELSE ParseMembers(SubSeq(toks, 2, Len(toks) - 1), <<>>)

\* Mutant: the signature is recomputed over the body as received.
verify_received_bytes(payload, signature, secret) ==
    IF secret = "" THEN [raised |-> FALSE, value |-> FALSE]
    ELSE [raised |-> FALSE,
          value |-> compare_digest(hmac_hexdigest(secret, payload), signature)]

\* verify_webhook(payload, signature, secret): raised is TRUE where the call
\* raises instead of returning.
verify_webhook(payload, signature, secret) ==
    IF secret = "" THEN [raised |-> FALSE, value |-> FALSE]
    ELSE LET parsed == json_loads(payload)
         IN IF ~parsed.ok THEN [raised |-> TRUE, value |-> FALSE]
            ELSE [raised |-> FALSE,
                  value |-> compare_digest(sign_webhook_payload(parsed.value, secret),
                                           signature)]

----------------------------------------------------------------------------
(* app/core/models.py: rows of the tables the recorder touches *)

WebhookAttrs == [inbox_id : Inboxes, endpoint : Endpoints, is_active : BOOLEAN]

WebhookRow(id, a) ==
    [id |-> id, inbox_id |-> a.inbox_id, target_url |-> a.endpoint.target_url,
     secret_token |-> a.endpoint.secret_token, is_active |-> a.is_active]

\* The webhooks tables of at most n rows, as the database may hold them when
\* the service starts.
WebhookTables(n) ==
    UNION { { {WebhookRow(i, f[i]) : i \in 1..m} : f \in [1..m -> WebhookAttrs] }
            : m \in 0..n }

\* a or b, on str | None
Or(a, b) == IF a \in {None, ""} THEN b ELSE a

IdleCall ==
    [pc |-> "idle", n |-> 0, variant |-> None, inbox_id |-> None, message_id |-> None,
     event_type |-> None, payload |-> <<>>, event_id |-> 0,
     read |-> {}, hooks |-> <<>>, k |-> 1, error |-> None]

NewSession == [new |-> {}, closed |-> FALSE]

NoResponse == [kind |-> "none", status |-> 0]
NoRequest == [signature |-> <<>>, body |-> <<>>]

NoCheck ==
    [op |-> "none", payload |-> <<>>, secret |-> "", raw |-> <<>>,
     signature |-> <<>>, receiver_secret |-> "", signed |-> <<>>,
     other |-> <<>>, signed_other |-> <<>>,
     verified |-> [raised |-> FALSE, value |-> FALSE]]

\* Table "messages" before any message exists; history lists the statuses
\* committed for the row, oldest first.
NoMessages == [m \in {"m1", "m2"} |-> [status |-> None, history |-> <<>>]]

IdleFrames ==
    [route |-> [pc |-> "idle", error |-> None],
     sender |-> [state |-> "none", retries |-> 0, error |-> None],
     inbound |-> [pc |-> "idle", error |-> None]]

\* The completion service's answer before any call is made.
NoReply == [kind |-> "none", status |-> 0, content |-> <<>>]

\* ParseResult before parse returns.
NoResult ==
    [otp_codes |-> <<>>, links |-> <<>>, sender_intent |-> None,
     requires_action |-> FALSE, summary |-> <<>>, used_llm |-> FALSE]

\* No call of the parser made yet.
NoParse ==
    [op |-> "none", pc |-> "idle", text |-> {}, use_llm_fallback |-> FALSE,
     api_key |-> FALSE, regex_otps |-> <<>>, regex_links |-> <<>>,
     needs_llm |-> FALSE, calls |-> <<>>, otp_reply |-> NoReply,
     link_reply |-> NoReply, llm_otps |-> <<>>, llm_links |-> <<>>,
     merged |-> <<>>, error |-> None, result |-> NoResult, matches |-> <<>>]

\* Delivery task message as .delay() hands it to the broker, not yet run.
PendingTask(target_url, secret_token, payload, event_id) ==
    [target_url |-> target_url, secret_token |-> secret_token,
     payload |-> payload, event_id |-> event_id,
     state |-> "Pending", retries |-> 0, posts |-> 0, delays |-> <<>>,
     response |-> NoResponse, request |-> NoRequest]

----------------------------------------------------------------------------
(* app/routes/v1/webhooks.py *)

\* POST /webhooks: a new registration, active by default.
create_webhook(inbox_id, target_url, secret_token) ==
    /\ Cardinality(webhooks) < MaxWebhooks
    /\ webhooks' = webhooks \cup
         { [id |-> Cardinality(webhooks) + 1, inbox_id |-> inbox_id,
            target_url |-> target_url,
            secret_token |-> IF secret_token \in {None, ""} THEN None ELSE secret_token,
            is_active |-> TRUE] }
    /\ UNCHANGED <<events, session, call, task, httpx_compact, check, messages, frames, parser>>

----------------------------------------------------------------------------
(* app/core/events.py: store_event_and_queue_webhooks(_sync) *)

\* Mutant: the is_active criterion is left out of the filter.
ActiveHooksAnyState(inbox_id) ==
    {wh \in webhooks : wh.inbox_id = inbox_id}

\* select(Webhook).filter(Webhook.inbox_id == inbox_id, Webhook.is_active)
ActiveHooks(inbox_id) ==
    {wh \in webhooks : wh.inbox_id = inbox_id /\ wh.is_active}

\* The orders in which the unordered SELECT may return a set of rows.
Orderings(rows) ==
    { s \in [1..Cardinality(rows) -> rows] :
        \A i, j \in 1..Cardinality(rows) : i # j => s[i] # s[j] }

\* Mutant: the handler does not roll the session back.
RollbackSkipped(s, committed) ==
    [session |-> s, events |-> committed]

\* Mutant: a compensating rollback, which also retracts the newest committed row.
RollbackRetracts(s, committed) ==
    [session |-> [s EXCEPT !.new = {}],
     events |-> {e \in committed : e.id < Cardinality(committed)}]

\* db.rollback() in session s over the committed rows: what the session added
\* and did not commit is discarded; committed rows are not touched.
Rollback(s, committed) ==
    [session |-> [s EXCEPT !.new = {}], events |-> committed]

\* await db.close(), the async variant's finally block.
Close(variant, s) ==
    IF variant = "async" THEN [s EXCEPT !.new = {}, !.closed = TRUE] ELSE s

\* The except block: log, db.rollback(), raise to the caller (then finally).
RaiseFrom(where) ==
    LET r == Rollback(session, events)
    IN /\ session' = Close(call.variant, r.session)
       /\ events' = r.events
       /\ call' = [call EXCEPT !.pc = "raised", !.error = where]

\* A caller enters the function with a session of its own: Event(...) is built
\* and db.add(event).  Invocations follow one another; n counts them.
Invoke(variant, inbox_id, message_id, emission) ==
    /\ call.pc \in {"idle", "returned", "raised"}
    /\ call.n < MaxCalls
    /\ call' = [IdleCall EXCEPT !.pc = "added", !.n = call.n + 1,
                                !.variant = variant,
                                !.inbox_id = inbox_id, !.message_id = message_id,
                                !.event_type = emission.event_type,
                                !.payload = emission.payload]
    /\ session' = [NewSession EXCEPT !.new =
                    { [event_type |-> emission.event_type, inbox_id |-> inbox_id,
                       message_id |-> message_id, payload |-> emission.payload] }]
    /\ UNCHANGED <<events, webhooks, task, httpx_compact, check, messages, frames, parser>>

\* db.commit() succeeds: the INSERT assigns the primary key and the row is durable.
CommitOk ==
    /\ call.pc = "added"
    /\ LET id == Cardinality(events) + 1
       IN /\ events' = events \cup
               { [id |-> id, event_type |-> e.event_type, inbox_id |-> e.inbox_id,
                  message_id |-> e.message_id, payload |-> e.payload]
                 : e \in session.new }
          /\ call' = [call EXCEPT !.pc = "committed", !.event_id = id]
    /\ session' = [session EXCEPT !.new = {}]
    /\ UNCHANGED <<webhooks, task, httpx_compact, check, messages, frames, parser>>

\* db.commit() raises.
CommitFails ==
    /\ call.pc = "added"
    /\ RaiseFrom("commit")
    /\ UNCHANGED <<webhooks, task, httpx_compact, check, messages, frames, parser>>

\* Sync variant only: db.refresh(event).
RefreshOk ==
    /\ call.pc = "committed"
    /\ call.variant = "sync"
    /\ call' = [call EXCEPT !.pc = "refreshed"]
    /\ UNCHANGED <<events, webhooks, session, task, httpx_compact, check, messages, frames, parser>>

RefreshFails ==
    /\ call.pc = "committed"
    /\ call.variant = "sync"
    /\ RaiseFrom("refresh")
    /\ UNCHANGED <<webhooks, task, httpx_compact, check, messages, frames, parser>>

\* Mutant: the webhooks are looked up and queued before the commit.
ReadyBeforeCommit ==
    call.pc \in {"added", "committed", "refreshed"}

\* Where the lookup runs: after the commit (and, in the sync variant, the refresh).
ReadyForLookup ==
    \/ call.variant = "async" /\ call.pc = "committed"
    \/ call.variant = "sync" /\ call.pc = "refreshed"

\* The SELECT of the inbox's active webhooks returns.
LookupOk ==
    /\ ReadyForLookup
    /\ \E hooks \in Orderings(ActiveHooks(call.inbox_id)) :
          call' = [call EXCEPT !.pc = "queueing", !.hooks = hooks,
                               !.read = webhooks]
    /\ UNCHANGED <<events, webhooks, session, task, httpx_compact, check, messages, frames, parser>>

\* The SELECT raises.
LookupFails ==
    /\ ReadyForLookup
    /\ RaiseFrom("lookup")
    /\ UNCHANGED <<webhooks, task, httpx_compact, check, messages, frames, parser>>

\* One iteration of "for wh in hooks": deliver_webhook_task.delay(...) succeeds.
EnqueueOk ==
    /\ call.pc = "queueing"
    /\ call.k <= Len(call.hooks)
    /\ LET wh == call.hooks[call.k]
       IN task' = Append(task,
                    PendingTask(wh.target_url, Or(wh.secret_token, ""),
                                call.payload, call.event_id))
    /\ call' = [call EXCEPT !.k = @ + 1]
    /\ UNCHANGED <<events, webhooks, session, httpx_compact, check, messages, frames, parser>>

\* Mutant: the handler revokes the tasks the call has enqueued so far.
EnqueueFailsRevokes ==
    /\ call.pc = "queueing"
    /\ call.k <= Len(call.hooks)
    /\ RaiseFrom("enqueue")
    /\ task' = SelectSeq(task, LAMBDA t : t.event_id # call.event_id)
    /\ UNCHANGED <<webhooks, httpx_compact, check, messages, frames, parser>>

\* deliver_webhook_task.delay(...) raises (the broker is unreachable).
EnqueueFails ==
    /\ call.pc = "queueing"
    /\ call.k <= Len(call.hooks)
    /\ RaiseFrom("enqueue")
    /\ UNCHANGED <<webhooks, task, httpx_compact, check, messages, frames, parser>>

\* The loop is over: the function returns None (after finally).
Return ==
    /\ call.pc = "queueing"
    /\ call.k > Len(call.hooks)
    /\ call' = [call EXCEPT !.pc = "returned"]
    /\ session' = Close(call.variant, session)
    /\ UNCHANGED <<events, webhooks, task, httpx_compact, check, messages, frames, parser>>

----------------------------------------------------------------------------
(* The Event Recorder and Delivery Scheduler *)

Init ==
    /\ events = {}
    /\ webhooks \in WebhookTables(MaxWebhooks)
    /\ session = NewSession
    /\ call = IdleCall
    /\ task = <<>>
    /\ httpx_compact = TRUE
    /\ check = NoCheck
    /\ messages = NoMessages
    /\ frames = IdleFrames
    /\ parser = NoParse

Next ==
    \/ \E i \in Inboxes, e \in Endpoints, s \in {None, ""} :
          create_webhook(i, e.target_url, Or(e.secret_token, s))
    \/ \E v \in {"async", "sync"}, i \in Inboxes, m \in Messages, e \in Emissions :
          Invoke(v, i, m, e)
    \/ CommitOk
    \/ CommitFails
    \/ RefreshOk
    \/ RefreshFails
    \/ LookupOk
    \/ LookupFails
    \/ EnqueueOk
    \/ EnqueueFails
    \/ Return

Spec == Init /\ [][Next]_vars

----------------------------------------------------------------------------
(* Properties of the Event Recorder and Delivery Scheduler *)

EventIds == {e.id : e \in events}

TaskArgs(t) ==
    [target_url |-> t.target_url, secret_token |-> t.secret_token,
     payload |-> t.payload, event_id |-> t.event_id]

\* C1: a delivery task is enqueued only after its event's insert is committed:
\* every task in the broker carries the id of a committed Event, and a step
\* that enqueues a task is taken by a call whose Event is already committed.
C1_CommitBeforeEnqueue ==
    /\ [](\A i \in DOMAIN task : task[i].event_id \in EventIds)
    /\ [][task' # task =>
            /\ call.event_id \in EventIds
            /\ Len(task') = Len(task) + 1
            /\ task'[Len(task')].event_id = call.event_id]_vars

C1_Witness ==
    /\ Len(task) >= 1
    /\ call.pc = "queueing"
    /\ task[1].event_id = call.event_id

\* The rows of the table read by the lookup that the filter of the claim keeps.
MatchingAtLookup ==
    {wh \in call.read : wh.inbox_id = call.inbox_id /\ wh.is_active = TRUE}

ExpectedArgs(wh) ==
    [target_url |-> wh.target_url,
     secret_token |-> IF wh.secret_token = None THEN "" ELSE wh.secret_token,
     payload |-> call.payload, event_id |-> call.event_id]

\* C2: when recording an event succeeds, the tasks enqueued for the event are
\* exactly one per webhook of the event's inbox that was active at lookup
\* time, each with that webhook's target_url, its secret ("" for none), the
\* event's payload and the event's id; none for an inactive webhook or a
\* webhook of another inbox.
C2_OneTaskPerActiveWebhook ==
    call.pc = "returned" =>
        LET mine == {i \in DOMAIN task : task[i].event_id = call.event_id}
        IN /\ Cardinality(mine) = Cardinality(MatchingAtLookup)
           /\ \A wh \in MatchingAtLookup :
                Cardinality({i \in mine : TaskArgs(task[i]) = ExpectedArgs(wh)})
                = Cardinality({w \in MatchingAtLookup : ExpectedArgs(w) = ExpectedArgs(wh)})
           /\ \A i \in mine : \E wh \in MatchingAtLookup :
                TaskArgs(task[i]) = ExpectedArgs(wh)
           /\ \E e \in events :
                /\ e.id = call.event_id
                /\ e.inbox_id = call.inbox_id
                /\ e.payload = call.payload

C2_Witness ==
    /\ call.pc = "returned"
    /\ Len(task) = 1
    /\ \E wh \in call.read : wh.inbox_id = call.inbox_id /\ ~wh.is_active

\* C7: if persisting the Event fails, the error is raised to the caller, the
\* session is rolled back so that no Event of the call remains, pending or
\* stored, and no delivery task is enqueued, then or later in that call.
C7_PersistFailureLeavesNothing ==
    [][/\ (call.pc = "added" /\ call'.pc \notin {"added", "committed"}) =>
            /\ call'.pc = "raised"
            /\ call'.error = "commit"
            /\ call'.event_id = 0
            /\ events' = events
            /\ session'.new = {}
            /\ task' = task
       /\ (call.pc = "raised" /\ call'.n = call.n) =>
            /\ events' = events
            /\ task' = task]_vars

C7_Witness ==
    /\ call.pc = "raised"
    /\ call.error = "commit"
    /\ call.variant = "sync"

\* C8: if the webhook lookup fails after the Event was committed, the error
\* is raised to the caller and the committed Event stays in the store: the
\* handler's rollback does not remove it.
C8_LookupFailureKeepsEvent ==
    /\ [](call.pc = "raised" /\ call.error = "lookup" =>
            \E e \in events :
                /\ e.id = call.event_id
                /\ e.event_type = call.event_type
                /\ e.inbox_id = call.inbox_id
                /\ e.message_id = call.message_id
                /\ e.payload = call.payload)
    /\ [][(call.pc \in {"committed", "refreshed"} /\ call'.pc = "raised") =>
            events' = events]_vars

C8_Witness ==
    /\ call.pc = "raised"
    /\ call.error = "lookup"
    /\ task = <<>>

\* C29: the fan-out is not compensated on a partial failure: if enqueuing
\* the task for the k-th active webhook fails, the tasks enqueued for the
\* webhooks 1..k-1 stay enqueued, ready to be delivered, no task is enqueued
\* for the webhooks k..n, the committed Event stays in the store and the
\* error is raised to the caller.
C29_PartialFanOutNotCompensated ==
    /\ [](call.pc = "raised" /\ call.error = "enqueue" =>
            LET mine == SelectSeq(task, LAMBDA t : t.event_id = call.event_id)
            IN /\ Len(mine) = call.k - 1
               /\ \A i \in 1..Len(mine) :
                     /\ TaskArgs(mine[i]) = ExpectedArgs(call.hooks[i])
                     /\ mine[i].state = "Pending"
               /\ \E e \in events :
                     /\ e.id = call.event_id
                     /\ e.event_type = call.event_type
                     /\ e.inbox_id = call.inbox_id
                     /\ e.message_id = call.message_id)
    /\ [][(call.pc = "queueing" /\ call'.pc = "raised") =>
            /\ call'.error = "enqueue"
            /\ task' = task
            /\ events' = events]_vars

\* The second of two deliveries could not be enqueued: the first stays.
C29_Witness ==
    /\ call.pc = "raised"
    /\ call.error = "enqueue"
    /\ Len(call.hooks) = 2
    /\ call.k = 2
    /\ Len(task) = 1

----------------------------------------------------------------------------
(* app/workers/tasks_webhooks.py: deliver_webhook_task *)

Statuses == {200, 302, 404, 503}

\* httpx.RequestError: a timeout, a transport error.
TransportErrors == {"ReadTimeout", "ConnectError"}

\* What client.post raises that is no RequestError, caught by "except Exception".
OtherErrors == {"InvalidURL"}

\* How a call of client.post followed by raise_for_status() can end.
Outcomes ==
    {[kind |-> "response", status |-> st] : st \in Statuses}
    \cup {[kind |-> e, status |-> 0] : e \in TransportErrors \cup OtherErrors}

\* Mutant: only 4xx and 5xx count as errors, so a redirect passes as success.
is_not_error(r) == r.kind = "response" /\ r.status < 400

\* httpx.Response.is_success, which raise_for_status() tests.
is_success(r) == r.kind = "response" /\ r.status >= 200 /\ r.status <= 299

\* httpx's encoding of a json= body: json.dumps without sort_keys, with the
\* compact separators in httpx >= 0.28 and the default ones before.
httpx_encode_json(payload, compact) ==
    IF compact
    THEN json_dumps(payload, CompactSeparators[1], CompactSeparators[2], FALSE)
    ELSE json_dumps(payload, DefaultSeparators[1], DefaultSeparators[2], FALSE)

\* The request of one attempt: the X-Webhook-Signature header and the body.
BuildRequest(payload, secret_token, compact) ==
    [signature |-> IF secret_token # "" THEN sign_webhook_payload(payload, secret_token)
                   ELSE <<>>,
     body |-> httpx_encode_json(payload, compact)]

\* Mutant: the exponent counts the attempt, not the retries so far.
BackoffByAttempt(retries) == backoff_base ^ (retries + 1)

\* backoff = 2**self.request.retries (a Celery request always has "retries",
\* so the fallback of 2 is never taken)
Backoff(retries) == backoff_base ^ retries

\* Mutant: the budget is compared one retry late.
RetryOnceMore(t, countdown) ==
    IF t.retries > max_retries
    THEN [t EXCEPT !.state = "Exhausted"]
    ELSE [t EXCEPT !.state = "RetryScheduled", !.retries = @ + 1,
                   !.delays = Append(@, countdown)]

\* Mutant: a task out of budget is left waiting instead of failing.
RetryNeverFails(t, countdown) ==
    IF t.retries + 1 > max_retries
    THEN [t EXCEPT !.state = "RetryScheduled"]
    ELSE [t EXCEPT !.state = "RetryScheduled", !.retries = @ + 1,
                   !.delays = Append(@, countdown)]

\* raise self.retry(exc=exc, countdown=backoff): Celery re-publishes the task
\* with retries + 1 unless that exceeds max_retries; then the task fails with exc.
Retry(t, countdown) ==
    IF t.retries + 1 > max_retries
    THEN [t EXCEPT !.state = "Exhausted"]
    ELSE [t EXCEPT !.state = "RetryScheduled", !.retries = @ + 1,
                   !.delays = Append(@, countdown)]

\* A worker takes the task (its countdown over, for a retry), signs the payload
\* and calls client.post; posts counts these calls.
StartAttempt(i) ==
    /\ task[i].state \in {"Pending", "RetryScheduled"}
    /\ task' = [task EXCEPT ![i] =
                 [@ EXCEPT !.state = "Attempting", !.posts = @ + 1,
                           !.response = NoResponse,
                           !.request = BuildRequest(task[i].payload,
                                                    task[i].secret_token,
                                                    httpx_compact)]]
    /\ UNCHANGED <<events, webhooks, session, call, httpx_compact, check, messages, frames, parser>>

\* The POST returns and raise_for_status() passes: return "delivered".
Delivered(i, r) ==
    /\ task[i].state = "Attempting"
    /\ is_success(r)
    /\ task' = [task EXCEPT ![i] = [@ EXCEPT !.state = "Delivered", !.response = r]]
    /\ UNCHANGED <<events, webhooks, session, call, httpx_compact, check, messages, frames, parser>>

\* Mutant: an endpoint whose task runs out of retries is deactivated.
FailedDeactivates(i, r) ==
    /\ task[i].state = "Attempting"
    /\ ~is_success(r)
    /\ task' = [task EXCEPT ![i] =
                 Retry([@ EXCEPT !.response = r], Backoff(task[i].retries))]
    /\ webhooks' =
         IF task'[i].state = "Exhausted"
         THEN {IF wh.target_url = task[i].target_url
               THEN [wh EXCEPT !.is_active = FALSE] ELSE wh : wh \in webhooks}
         ELSE webhooks
    /\ UNCHANGED <<events, session, call, httpx_compact, check, messages, frames, parser>>

\* Mutant: the tasks of one event draw on one retry counter.
FailedSharedBudget(i, r) ==
    /\ task[i].state = "Attempting"
    /\ ~is_success(r)
    /\ task' = [j \in DOMAIN task |->
                 IF j = i
                 THEN Retry([task[i] EXCEPT !.response = r], Backoff(task[i].retries))
                 ELSE IF task[j].event_id = task[i].event_id
                           /\ task[j].state \in {"Pending", "RetryScheduled"}
                           /\ task[j].retries < max_retries
                      THEN [task[j] EXCEPT !.retries = @ + 1]
                      ELSE task[j]]
    /\ UNCHANGED <<events, webhooks, session, call, httpx_compact, check, messages, frames, parser>>

\* raise_for_status() raises HTTPStatusError, or the POST raises RequestError
\* (timeout, transport error) or another exception: each except block retries
\* with the backoff.
Failed(i, r) ==
    /\ task[i].state = "Attempting"
    /\ ~is_success(r)
    /\ task' = [task EXCEPT ![i] =
                 Retry([@ EXCEPT !.response = r], Backoff(task[i].retries))]
    /\ UNCHANGED <<events, webhooks, session, call, httpx_compact, check, messages, frames, parser>>

\* The messages the scheduler hands to the broker for one event.
FanOuts(n) ==
    UNION { { [i \in 1..m |->
                PendingTask(f[i].target_url, Or(f[i].secret_token, ""), p, 1)]
              : f \in [1..m -> Endpoints], p \in Payloads }
            : m \in 1..n }

InitDeliver ==
    /\ events = {}
    /\ webhooks = {}
    /\ session = NewSession
    /\ call = IdleCall
    /\ task \in FanOuts(MaxTasks)
    /\ httpx_compact \in BOOLEAN
    /\ check = NoCheck
    /\ messages = NoMessages
    /\ frames = IdleFrames
    /\ parser = NoParse

NextDeliver ==
    \/ \E i \in DOMAIN task : StartAttempt(i)
    \/ \E i \in DOMAIN task, r \in Outcomes : Delivered(i, r)
    \/ \E i \in DOMAIN task, r \in Outcomes : Failed(i, r)

SpecDeliver == InitDeliver /\ [][NextDeliver]_vars

\* Every task whose countdown is over is run by some worker, and every POST
\* ends within the client's timeout.
FairDeliver ==
    /\ SpecDeliver
    /\ \A i \in 1..MaxTasks :
         /\ WF_vars(i \in DOMAIN task /\ StartAttempt(i))
         /\ WF_vars(i \in DOMAIN task /\ \E r \in Outcomes : Delivered(i, r) \/ Failed(i, r))

----------------------------------------------------------------------------
(* Properties of the Delivery Worker *)

Terminal(t) == t.state \in {"Delivered", "Exhausted"}

\* An attempt of t has been made and has failed, and none is in flight.
AfterFailure(t) == t.state \in {"RetryScheduled", "Exhausted"}

\* C3 as claimed: after 8 consecutive failed attempts the task is Exhausted,
\* and no 9th POST is ever sent.
C3_ExhaustedAfterEightAttempts ==
    \A i \in DOMAIN task :
        /\ task[i].posts <= 8
        /\ (AfterFailure(task[i]) /\ task[i].posts = 8) => task[i].state = "Exhausted"

\* C3 as amended: the task is Exhausted after max_retries + 1 = 9 consecutive
\* failed attempts (the first attempt and 8 retries) and not before, and no
\* 10th POST is ever sent.
C3_ExhaustedAfterNineAttempts ==
    \A i \in DOMAIN task :
        /\ task[i].posts <= max_retries + 1
        /\ AfterFailure(task[i]) =>
              (task[i].state = "Exhausted" <=> task[i].posts = max_retries + 1)

C3_Witness ==
    \E i \in DOMAIN task : task[i].state = "Exhausted" /\ task[i].posts = 9

\* C4: the retry after the n-th failure is delayed 2^(n-1) s; a task whose
\* first three attempts fail and whose fourth returns 2xx has scheduled
\* exactly three retries, delayed 1 s, 2 s and 4 s, and is Delivered.
C4_BackoffDelays ==
    \A i \in DOMAIN task :
        /\ Len(task[i].delays) = task[i].retries
        /\ \A n \in 1..Len(task[i].delays) : task[i].delays[n] = 2 ^ (n - 1)
        /\ (task[i].state = "Delivered" /\ task[i].posts = 4) =>
              task[i].delays = <<1, 2, 4>>

C4_Witness ==
    \E i \in DOMAIN task :
        /\ task[i].state = "Delivered"
        /\ task[i].posts = 4
        /\ task[i].response.status = 200

\* C5: a 2xx response moves the task to Delivered, and only a 2xx response
\* does: after a 3xx, 4xx or 5xx response or a transport error the task is
\* not Delivered; Delivered is terminal, with no retry and no further POST.
C5_DeliveredOnlyOn2xx ==
    /\ [](\A i \in DOMAIN task :
            /\ task[i].state = "Delivered" =>
                  /\ task[i].response.kind = "response"
                  /\ task[i].response.status \in 200..299
            /\ (task[i].response.kind = "response"
                    /\ task[i].response.status \in 200..299) =>
                  task[i].state = "Delivered"
            /\ AfterFailure(task[i]) =>
                  ~(task[i].response.kind = "response"
                      /\ task[i].response.status \in 200..299))
    /\ [][\A i \in DOMAIN task :
            task[i].state = "Delivered" => task'[i] = task[i]]_vars

C5_Witness ==
    /\ \E i \in DOMAIN task : task[i].state = "Delivered" /\ task[i].response.status = 200
    /\ \E i \in DOMAIN task : task[i].retries = 0

\* The moves of the delivery state machine.
Moves ==
    { <<"Pending", "Attempting">>, <<"Attempting", "Delivered">>,
      <<"Attempting", "RetryScheduled">>, <<"RetryScheduled", "Attempting">>,
      <<"Attempting", "Exhausted">> }

\* C6: every delivery task terminates: whatever the endpoint answers, with
\* every scheduled retry eventually run, the task ends in Delivered or
\* Exhausted after a bounded number of attempts, moving only along
\* Pending -> Attempting -> {Delivered | RetryScheduled -> Attempting | Exhausted}.
C6_DeliveryTerminates ==
    /\ <>[](\A i \in DOMAIN task : Terminal(task[i]))
    /\ [](\A i \in DOMAIN task : task[i].posts <= max_retries + 1)
    /\ [][\A i \in DOMAIN task :
            \/ task'[i] = task[i]
            \/ <<task[i].state, task'[i].state>> \in Moves]_vars

C6_Witness ==
    \A i \in DOMAIN task :
        /\ task[i].state = "Delivered"
        /\ task[i].retries = max_retries

\* C9: in every delivery attempt the request body is the byte sequence over
\* which the X-Webhook-Signature header was computed.
C9_BodyIsSignedBytes ==
    \A i \in DOMAIN task :
        (task[i].posts > 0 /\ task[i].secret_token # "") =>
            task[i].request.signature =
                hmac_hexdigest(task[i].secret_token, task[i].request.body)

----------------------------------------------------------------------------
(* The recorder and the workers together, over a database with history *)

\* An Event committed by an earlier call.
EarlierEvent ==
    [id |-> 1, event_type |-> "message.sent", inbox_id |-> "inbox1",
     message_id |-> "m1", payload |-> PayloadSent]

\* The registrations of inbox1: an active, signed one and a deactivated one.
PipelineWebhooks ==
    { WebhookRow(1, [inbox_id |-> "inbox1",
                     endpoint |-> [target_url |-> "https://b.example/hook",
                                   secret_token |-> "k1"],
                     is_active |-> TRUE]),
      WebhookRow(2, [inbox_id |-> "inbox1",
                     endpoint |-> [target_url |-> "https://a.example/hook",
                                   secret_token |-> None],
                     is_active |-> FALSE]) }

InitPipeline ==
    /\ events = {EarlierEvent}
    /\ webhooks = PipelineWebhooks
    /\ session = NewSession
    /\ call = IdleCall
    /\ task = <<>>
    /\ httpx_compact = TRUE
    /\ check = NoCheck
    /\ messages = NoMessages
    /\ frames = IdleFrames
    /\ parser = NoParse

\* Events of inbox1 are recorded while the workers run the tasks enqueued so far.
NextPipeline ==
    \/ \E v \in {"async", "sync"}, m \in Messages, e \in Emissions :
          Invoke(v, "inbox1", m, e)
    \/ CommitOk
    \/ CommitFails
    \/ RefreshOk
    \/ RefreshFails
    \/ LookupOk
    \/ LookupFails
    \/ EnqueueOk
    \/ EnqueueFails
    \/ Return
    \/ \E i \in DOMAIN task : StartAttempt(i)
    \/ \E i \in DOMAIN task, r \in Outcomes : Delivered(i, r)
    \/ \E i \in DOMAIN task, r \in Outcomes : Failed(i, r)

SpecPipeline == InitPipeline /\ [][NextPipeline]_vars

\* C14: no step of store_event_and_queue_webhooks(_sync) or of
\* deliver_webhook_task, its retries and its exhaustion included, updates or
\* deletes a committed Event or creates, updates, deactivates or deletes a
\* Webhook registration: every committed row is there unchanged after the step.
C14_CommittedStateUntouched ==
    [][/\ webhooks' = webhooks
       /\ \A e \in events : e \in events']_vars

\* A second event was recorded beside the earlier one, and its delivery ran
\* out of retries.
C14_Witness ==
    /\ EarlierEvent \in events
    /\ Cardinality(events) = 2
    /\ call.pc = "returned"
    /\ Len(task) = 1
    /\ task[1].state = "Exhausted"
    /\ webhooks = PipelineWebhooks

----------------------------------------------------------------------------
(* Several deliveries of one event in flight *)

\* The tasks of one message.failed event with MaxPeers active webhooks.
PeerTasks ==
    [i \in 1..MaxPeers |->
        PendingTask(IF i % 2 = 1 THEN "https://b.example/hook"
                    ELSE "https://a.example/hook",
                    IF i % 2 = 1 THEN "k1" ELSE "",
                    PayloadFailed, 1)]

InitPeers ==
    /\ events = {}
    /\ webhooks = {}
    /\ session = NewSession
    /\ call = IdleCall
    /\ task = PeerTasks
    /\ httpx_compact = TRUE
    /\ check = NoCheck
    /\ messages = NoMessages
    /\ frames = IdleFrames
    /\ parser = NoParse

NextPeers ==
    \/ \E i \in DOMAIN task : StartAttempt(i)
    \/ \E i \in DOMAIN task, r \in Outcomes : Delivered(i, r)
    \/ \E i \in DOMAIN task, r \in Outcomes : Failed(i, r)

SpecPeers == InitPeers /\ [][NextPeers]_vars

\* C15: with several delivery tasks in flight, in every interleaving, a step
\* of one task (an attempt, a failure, a retry, its exhaustion) leaves every
\* other task as it was: its attempt counter, its retry delays and its state,
\* also for tasks of the same event.
C15_TasksIndependent ==
    [][/\ DOMAIN task' = DOMAIN task
       /\ \A i, j \in DOMAIN task :
            (i # j /\ task'[i] # task[i]) => task'[j] = task[j]]_vars

\* One task of the event is exhausted while its peer, untouched by that, was
\* delivered at its first attempt.
C15_Witness ==
    /\ Len(task) >= 2
    /\ task[1].event_id = task[2].event_id
    /\ task[1].state = "Exhausted"
    /\ task[1].posts = max_retries + 1
    /\ task[2].state = "Delivered"
    /\ task[2].posts = 1
    /\ task[2].delays = <<>>

----------------------------------------------------------------------------
(* The lifecycle of a message: send_message, send_email_task and            *)
(* handle_resend_inbound, each with the calls it makes                      *)

QueuedEmission == [event_type |-> "message.queued", payload |-> PayloadQueued]
SentEmission == [event_type |-> "message.sent", payload |-> PayloadSent]
FailedEmission == [event_type |-> "message.failed", payload |-> PayloadFailed]
ReceivedEmission == [event_type |-> "message.received", payload |-> PayloadReceived]

\* What a call of store_event_and_queue_webhooks(_sync) ends with: it returns,
\* or raises a database error (commit, refresh, lookup) or a broker error (delay).
StoreResults == {None, "SQLAlchemyError", "OperationalError"}

\* message.status = st; db.commit()
SetStatus(m, st) ==
    [messages EXCEPT ![m] = [status |-> st, history |-> Append(@.history, st)]]

\* Event(...) with the primary key its INSERT assigns.
NewEvent(inbox_id, message_id, emission) ==
    [id |-> Cardinality(events) + 1, event_type |-> emission.event_type,
     inbox_id |-> inbox_id, message_id |-> message_id, payload |-> emission.payload]

\* deliver_webhook_task.delay(...) for each of hooks, in their order.
HookTasks(hooks, payload, event_id) ==
    [i \in 1..Len(hooks) |->
        PendingTask(hooks[i].target_url, Or(hooks[i].secret_token, ""),
                    payload, event_id)]

\* One whole call of store_event_and_queue_webhooks(_sync) that ends with
\* raised: the Event is committed unless the commit raised, and the tasks of
\* the hooks before the failing delay() are enqueued.
StoreEvent(inbox_id, message_id, emission, raised) ==
    LET ev == NewEvent(inbox_id, message_id, emission)
    IN \/ /\ raised = None
          /\ events' = events \cup {ev}
          /\ \E hooks \in Orderings(ActiveHooks(inbox_id)) :
                task' = task \o HookTasks(hooks, emission.payload, ev.id)
       \/ /\ raised = "SQLAlchemyError"
          /\ \/ events' = events
             \/ events' = events \cup {ev}
          /\ task' = task
       \/ /\ raised = "OperationalError"
          /\ events' = events \cup {ev}
          /\ \E hooks \in Orderings(ActiveHooks(inbox_id)) :
                \E k \in 1..Len(hooks) :
                   task' = task \o HookTasks(SubSeq(hooks, 1, k - 1),
                                             emission.payload, ev.id)

(* routes/v1/message.py: send_message *)

\* Mutant: the send task is enqueued right after the commit, before the
\* message.queued event is recorded.
send_message_commit_enqueues_first ==
    /\ frames.route.pc = "idle"
    /\ messages' = SetStatus("m1", "queued")
    /\ frames' = [frames EXCEPT !.route.pc = "committed", !.sender.state = "enqueued"]
    /\ UNCHANGED <<events, webhooks, session, call, task, httpx_compact, check, parser>>

\* The Message is added, committed as QUEUED and refreshed.
send_message_commit ==
    /\ frames.route.pc = "idle"
    /\ messages' = SetStatus("m1", "queued")
    /\ frames' = [frames EXCEPT !.route.pc = "committed"]
    /\ UNCHANGED <<events, webhooks, session, call, task, httpx_compact, check, parser>>

\* db.commit() raises: rollback, HTTP 500.
send_message_commit_fails ==
    /\ frames.route.pc = "idle"
    /\ frames' = [frames EXCEPT !.route = [pc |-> "failed", error |-> "SQLAlchemyError"]]
    /\ UNCHANGED <<events, webhooks, session, call, task, httpx_compact, check, messages, parser>>

\* db.refresh(message) raises after the commit: rollback, HTTP 500.
send_message_refresh_fails ==
    /\ frames.route.pc = "idle"
    /\ messages' = SetStatus("m1", "queued")
    /\ frames' = [frames EXCEPT !.route = [pc |-> "failed", error |-> "SQLAlchemyError"]]
    /\ UNCHANGED <<events, webhooks, session, call, task, httpx_compact, check, parser>>

\* await store_event_and_queue_webhooks(... MESSAGE_QUEUED ...): an error ends
\* the request (SQLAlchemyError through the handler, any other one unhandled).
send_message_emit(raised) ==
    /\ frames.route.pc = "committed"
    /\ StoreEvent("inbox1", "m1", QueuedEmission, raised)
    /\ frames' = [frames EXCEPT !.route =
                    IF raised = None THEN [pc |-> "emitted", error |-> None]
                    ELSE [pc |-> "failed", error |-> raised]]
    /\ UNCHANGED <<webhooks, session, call, httpx_compact, check, messages, parser>>

\* send_email_task.delay(message_id=...), then the 201 response.
send_message_enqueue ==
    /\ frames.route.pc = "emitted"
    /\ frames' = [frames EXCEPT !.route.pc = "done", !.sender.state = "enqueued"]
    /\ UNCHANGED <<events, webhooks, session, call, task, httpx_compact, check, messages, parser>>

\* send_email_task.delay(...) raises (the broker is unreachable).
send_message_enqueue_fails ==
    /\ frames.route.pc = "emitted"
    /\ frames' = [frames EXCEPT !.route = [pc |-> "failed", error |-> "OperationalError"]]
    /\ UNCHANGED <<events, webhooks, session, call, task, httpx_compact, check, messages, parser>>

(* workers/tasks_email.py: send_email_task *)

\* A worker runs the task, first delivery or retry: the Message and its Inbox
\* are found, msg.status = SENDING is committed.
send_email_task_start ==
    /\ frames.sender.state \in {"enqueued", "retry"}
    /\ messages' = SetStatus("m1", "sending")
    /\ frames' = [frames EXCEPT !.sender.state = "sending"]
    /\ UNCHANGED <<events, webhooks, session, call, task, httpx_compact, check, parser>>

\* One of the two queries raises: msg or inbox is still None in the handler,
\* which re-raises.
send_email_task_query_fails ==
    /\ frames.sender.state \in {"enqueued", "retry"}
    /\ frames' = [frames EXCEPT !.sender.state = "raised",
                                !.sender.error = "SQLAlchemyError"]
    /\ UNCHANGED <<events, webhooks, session, call, task, httpx_compact, check, messages, parser>>

\* The commit of SENDING raises: to "except Exception".
send_email_task_start_fails ==
    /\ frames.sender.state \in {"enqueued", "retry"}
    /\ frames' = [frames EXCEPT !.sender.state = "failing",
                                !.sender.error = "SQLAlchemyError"]
    /\ UNCHANGED <<events, webhooks, session, call, task, httpx_compact, check, messages, parser>>

\* resend.Emails.send(params) returns: the provider has accepted the email.
send_email_task_provider_accepts ==
    /\ frames.sender.state = "sending"
    /\ frames' = [frames EXCEPT !.sender.state = "accepted"]
    /\ UNCHANGED <<events, webhooks, session, call, task, httpx_compact, check, messages, parser>>

\* resend.Emails.send raises ResendError: raise self.retry(exc=exc, countdown=...),
\* which re-publishes the task unless retries + 1 exceeds max_retries and then
\* raises exc out of the handler.
send_email_task_provider_rejects ==
    /\ frames.sender.state = "sending"
    /\ frames' = [frames EXCEPT !.sender =
                    IF frames.sender.retries + 1 > send_max_retries
                    THEN [@ EXCEPT !.state = "raised", !.error = "ResendError"]
                    ELSE [@ EXCEPT !.state = "retry", !.retries = @ + 1]]
    /\ UNCHANGED <<events, webhooks, session, call, task, httpx_compact, check, messages, parser>>

\* resend.Emails.send raises another exception: to "except Exception".
send_email_task_provider_raises ==
    /\ frames.sender.state = "sending"
    /\ frames' = [frames EXCEPT !.sender.state = "failing", !.sender.error = "Exception"]
    /\ UNCHANGED <<events, webhooks, session, call, task, httpx_compact, check, messages, parser>>

\* msg.status = SENT, provider_message_id, sent_at; db.commit()
send_email_task_commit_sent ==
    /\ frames.sender.state = "accepted"
    /\ messages' = SetStatus("m1", "sent")
    /\ frames' = [frames EXCEPT !.sender.state = "sent"]
    /\ UNCHANGED <<events, webhooks, session, call, task, httpx_compact, check, parser>>

\* The commit of SENT raises: to "except Exception".
send_email_task_commit_sent_fails ==
    /\ frames.sender.state = "accepted"
    /\ frames' = [frames EXCEPT !.sender.state = "failing",
                                !.sender.error = "SQLAlchemyError"]
    /\ UNCHANGED <<events, webhooks, session, call, task, httpx_compact, check, messages, parser>>

\* store_event_and_queue_webhooks_sync(... MESSAGE_SENT ...), inside the try:
\* an error it raises goes to "except Exception".
send_email_task_emit_sent(raised) ==
    /\ frames.sender.state = "sent"
    /\ StoreEvent("inbox1", "m1", SentEmission, raised)
    /\ frames' = [frames EXCEPT !.sender =
                    IF raised = None THEN [@ EXCEPT !.state = "returned"]
                    ELSE [@ EXCEPT !.state = "failing", !.error = raised]]
    /\ UNCHANGED <<webhooks, session, call, httpx_compact, check, messages, parser>>

\* except Exception: msg.status = FAILED; db.commit()
send_email_task_mark_failed ==
    /\ frames.sender.state = "failing"
    /\ messages' = SetStatus("m1", "failed")
    /\ frames' = [frames EXCEPT !.sender.state = "marked"]
    /\ UNCHANGED <<events, webhooks, session, call, task, httpx_compact, check, parser>>

\* The commit of FAILED raises, out of the handler.
send_email_task_mark_failed_fails ==
    /\ frames.sender.state = "failing"
    /\ frames' = [frames EXCEPT !.sender.state = "raised",
                                !.sender.error = "SQLAlchemyError"]
    /\ UNCHANGED <<events, webhooks, session, call, task, httpx_compact, check, messages, parser>>

\* store_event_and_queue_webhooks_sync(... MESSAGE_FAILED ...), then raise:
\* the task ends with the error, also when that call raised one of its own.
send_email_task_emit_failed(raised) ==
    /\ frames.sender.state = "marked"
    /\ StoreEvent("inbox1", "m1", FailedEmission, raised)
    /\ frames' = [frames EXCEPT !.sender.state = "raised"]
    /\ UNCHANGED <<webhooks, session, call, httpx_compact, check, messages, parser>>

(* routes/v1/inbound_resend.py: handle_resend_inbound *)

\* The signature verifies, the email is fetched, its inbox and thread are
\* found; the Message is committed with status DELIVERED, then its attachments.
handle_resend_inbound_commit ==
    /\ frames.inbound.pc = "idle"
    /\ messages' = SetStatus("m2", "delivered")
    /\ frames' = [frames EXCEPT !.inbound.pc = "committed"]
    /\ UNCHANGED <<events, webhooks, session, call, task, httpx_compact, check, parser>>

\* The commit of the Message raises: rollback, HTTP 500.
handle_resend_inbound_commit_fails ==
    /\ frames.inbound.pc = "idle"
    /\ frames' = [frames EXCEPT !.inbound = [pc |-> "failed", error |-> "SQLAlchemyError"]]
    /\ UNCHANGED <<events, webhooks, session, call, task, httpx_compact, check, messages, parser>>

\* store_event_and_queue_webhooks(... MESSAGE_RECEIVED ...) is called without
\* await: the call builds a coroutine object that is dropped, its body never
\* runs; the handler answers 200.
handle_resend_inbound_emit ==
    /\ frames.inbound.pc = "committed"
    /\ frames' = [frames EXCEPT !.inbound.pc = "done"]
    /\ UNCHANGED <<events, webhooks, session, call, task, httpx_compact, check, messages, parser>>

InitLifecycle ==
    /\ events = {}
    /\ webhooks = PipelineWebhooks
    /\ session = NewSession
    /\ call = IdleCall
    /\ task = <<>>
    /\ httpx_compact = TRUE
    /\ check = NoCheck
    /\ messages = NoMessages
    /\ frames = IdleFrames
    /\ parser = NoParse

NextLifecycle ==
    \/ send_message_commit
    \/ send_message_commit_fails
    \/ send_message_refresh_fails
    \/ \E raised \in StoreResults : send_message_emit(raised)
    \/ send_message_enqueue
    \/ send_message_enqueue_fails
    \/ send_email_task_start
    \/ send_email_task_query_fails
    \/ send_email_task_start_fails
    \/ send_email_task_provider_accepts
    \/ send_email_task_provider_rejects
    \/ send_email_task_provider_raises
    \/ send_email_task_commit_sent
    \/ send_email_task_commit_sent_fails
    \/ \E raised \in StoreResults : send_email_task_emit_sent(raised)
    \/ send_email_task_mark_failed
    \/ send_email_task_mark_failed_fails
    \/ \E raised \in StoreResults : send_email_task_emit_failed(raised)
    \/ handle_resend_inbound_commit
    \/ handle_resend_inbound_commit_fails
    \/ handle_resend_inbound_emit

SpecLifecycle == InitLifecycle /\ [][NextLifecycle]_vars

----------------------------------------------------------------------------
(* An outbound message with the deliveries of its events in flight *)

\* send_message and send_email_task run for one message of inbox1 while the
\* workers run the delivery tasks enqueued so far.
NextOrder ==
    \/ send_message_commit
    \/ send_message_commit_fails
    \/ send_message_refresh_fails
    \/ \E raised \in StoreResults : send_message_emit(raised)
    \/ send_message_enqueue
    \/ send_message_enqueue_fails
    \/ send_email_task_start
    \/ send_email_task_query_fails
    \/ send_email_task_start_fails
    \/ send_email_task_provider_accepts
    \/ send_email_task_provider_rejects
    \/ send_email_task_provider_raises
    \/ send_email_task_commit_sent
    \/ send_email_task_commit_sent_fails
    \/ \E raised \in StoreResults : send_email_task_emit_sent(raised)
    \/ send_email_task_mark_failed
    \/ send_email_task_mark_failed_fails
    \/ \E raised \in StoreResults : send_email_task_emit_failed(raised)
    \/ \E i \in DOMAIN task : StartAttempt(i)
    \/ \E i \in DOMAIN task, r \in Outcomes : Delivered(i, r)
    \/ \E i \in DOMAIN task, r \in Outcomes : Failed(i, r)

SpecOrder == InitLifecycle /\ [][NextOrder]_vars

\* The type of the event a delivery task carries.
TaskEventType(t) == (CHOOSE e \in events : e.id = t.event_id).event_type

\* Tasks i and j go to one endpoint, i with the message.queued event and j
\* with the message.sent or message.failed event of the outbound message.
QueuedThenSettled(i, j) ==
    /\ task[i].target_url = task[j].target_url
    /\ TaskEventType(task[i]) = "message.queued"
    /\ TaskEventType(task[j]) \in {"message.sent", "message.failed"}

\* C30 as claimed: for one endpoint and one outbound message, the
\* message.queued event is delivered to the endpoint before the message.sent
\* (or message.failed) event, in every interleaving of the delivery tasks and
\* their retries.
C30_QueuedDeliveredFirst ==
    \A i, j \in DOMAIN task :
        (QueuedThenSettled(i, j) /\ task[j].state = "Delivered")
            => task[i].state = "Delivered"

\* C30 as amended: for one endpoint and one outbound message, the delivery
\* task of the message.queued event is enqueued before the delivery task of
\* the message.sent (or message.failed) event; the two tasks are delivered
\* and retried independently, so the later event may reach the endpoint
\* first.
C30_QueuedEnqueuedFirst ==
    \A i, j \in DOMAIN task : QueuedThenSettled(i, j) => i < j

\* The message.sent event has reached the endpoint while the delivery of
\* message.queued, enqueued first, waits for a retry.
C30_Witness ==
    /\ Len(task) = 2
    /\ QueuedThenSettled(1, 2)
    /\ TaskEventType(task[2]) = "message.sent"
    /\ task[2].state = "Delivered"
    /\ task[1].state = "RetryScheduled"

----------------------------------------------------------------------------
(* Properties of the message lifecycle *)

\* The event type of the transition into a status.
EventTypeOf(st) ==
    CASE st = "queued" -> "message.queued"
      [] st = "sent" -> "message.sent"
      [] st = "failed" -> "message.failed"
      [] st = "delivered" -> "message.received"

\* The handler that makes the transition into st has ended.
HandlerEnded(st) ==
    CASE st = "queued" -> frames.route.pc \in {"done", "failed"}
      [] st = "delivered" -> frames.inbound.pc \in {"done", "failed"}
      [] OTHER -> frames.sender.state \in {"returned", "raised"}

EventsOf(m, st) ==
    {e \in events : e.message_id = m /\ e.event_type = EventTypeOf(st)}

Occurrences(m, st) ==
    Cardinality({i \in 1..Len(messages[m].history) : messages[m].history[i] = st})

\* C13: each lifecycle transition of a message (queued in send_message, sent
\* or failed in send_email_task, received in the inbound handler) has exactly
\* one committed Event of the matching type for the message once its handler
\* has ended, and never more events than transitions.
C13_OneEventPerTransition ==
    \A m \in DOMAIN messages : \A st \in {"queued", "sent", "failed", "delivered"} :
        /\ Cardinality(EventsOf(m, st)) <= Occurrences(m, st)
        /\ HandlerEnded(st) => Cardinality(EventsOf(m, st)) = Occurrences(m, st)

\* The statuses committed for the outbound message so far.
Committed == {messages["m1"].history[i] : i \in 1..Len(messages["m1"].history)}

\* C26, for the runs in which nothing but the provider fails: a message for
\* which send_email_task has started running ends with a committed status of
\* SENT or FAILED and a recorded message.sent or message.failed event, also
\* when the provider raises ResendError on every attempt until the retry
\* budget of 5 is exhausted: once the task has ended, the message is not
\* left in SENDING.
C26_SendingSettles ==
    (/\ frames.sender.state \in {"returned", "raised"}
     /\ frames.sender.error \in {None, "ResendError"}
     /\ "sending" \in Committed) =>
        /\ messages["m1"].status \in {"sent", "failed"}
        /\ \E e \in events :
              /\ e.message_id = "m1"
              /\ e.event_type \in {"message.sent", "message.failed"}

\* C27: once send_email_task has committed the status SENT, no later step of
\* the task sets the message to FAILED or records a message.failed event for
\* it, also when recording the message.sent event or queuing its webhooks
\* raises an error.
C27_SentStaysSent ==
    "sent" \in Committed =>
        /\ "failed" \notin Committed
        /\ \A e \in events :
              ~(e.message_id = "m1" /\ e.event_type = "message.failed")

\* C28, for the failure it names: when send_message has ended and has left
\* the Message committed as QUEUED with its message.queued event recorded, a
\* send_email_task for the message has been enqueued, also when queuing the
\* webhooks of the event failed.
C28_QueuedHasSendTask ==
    (/\ frames.route.pc \in {"done", "failed"}
     /\ "queued" \in Committed
     /\ frames.route.error # "SQLAlchemyError"
     /\ \E e \in events : e.message_id = "m1" /\ e.event_type = "message.queued") =>
        frames.sender.state # "none"

----------------------------------------------------------------------------
(* The signature primitive applied to inputs, by the sender and by a receiver *)

SignPayloads ==
    Payloads \cup { <<>>, << <<"resend_id", "r1">>, <<"message_id", "m1">> >> }

SignSecrets == {"", "k1", "k2"}

\* The dicts with the key/value pairs of d, in every insertion order.
Reorderings(d) ==
    {q \in [1..Len(d) -> {d[i] : i \in 1..Len(d)}] :
        {q[i] : i \in 1..Len(d)} = {d[i] : i \in 1..Len(d)}}

\* The JSON texts of dict d: any key order, with or without whitespace.
Serialisations(d) ==
    {json_dumps(q, seps[1], seps[2], FALSE) :
        q \in Reorderings(d), seps \in {CompactSeparators, DefaultSeparators}}

\* Request bodies a receiver may be handed: serialisations of the payloads,
\* the canonical form and both httpx forms among them, and text that is not JSON.
RawBodies ==
    UNION {Serialisations(p) : p \in SignPayloads}
    \cup {httpx_encode_json(p, c) : p \in SignPayloads, c \in BOOLEAN}
    \cup { <<>>, <<"not json">> }

Signatures ==
    { <<>> } \cup {sign_webhook_payload(p, k) : p \in SignPayloads, k \in SignSecrets}

\* Two calls of sign_webhook_payload with one secret: for payload, then for
\* a dict of the same key/value pairs (payload itself, or a reordering of it).
Sign(payload, other, secret) ==
    /\ check' = [NoCheck EXCEPT !.op = "sign", !.payload = payload, !.secret = secret,
                                !.signed = sign_webhook_payload(payload, secret),
                                !.other = other,
                                !.signed_other = sign_webhook_payload(other, secret)]
    /\ UNCHANGED <<events, webhooks, session, call, task, httpx_compact, messages, frames, parser>>

\* verify_webhook(raw, signature, secret)
Verify(raw, signature, secret) ==
    /\ check' = [NoCheck EXCEPT !.op = "verify", !.raw = raw, !.signature = signature,
                                !.receiver_secret = secret,
                                !.verified = verify_webhook(raw, signature, secret)]
    /\ UNCHANGED <<events, webhooks, session, call, task, httpx_compact, messages, frames, parser>>

\* One delivery attempt for (payload, secret_token) reaches an endpoint, which
\* verifies the body against the X-Webhook-Signature header with its own secret.
Receive(payload, secret_token, receiver_secret) ==
    /\ LET request == BuildRequest(payload, secret_token, httpx_compact)
       IN check' = [NoCheck EXCEPT !.op = "deliver", !.payload = payload,
                                   !.secret = secret_token,
                                   !.raw = request.body,
                                   !.signature = request.signature,
                                   !.receiver_secret = receiver_secret,
                                   !.verified = verify_webhook(request.body,
                                                               request.signature,
                                                               receiver_secret)]
    /\ UNCHANGED <<events, webhooks, session, call, task, httpx_compact, messages, frames, parser>>

InitSign ==
    /\ events = {}
    /\ webhooks = {}
    /\ session = NewSession
    /\ call = IdleCall
    /\ task = <<>>
    /\ httpx_compact \in BOOLEAN
    /\ check = NoCheck
    /\ messages = NoMessages
    /\ frames = IdleFrames
    /\ parser = NoParse

NextSign ==
    \/ \E p \in SignPayloads, k \in SignSecrets :
          \E q \in Reorderings(p) : Sign(p, q, k)
    \/ \E raw \in RawBodies, sig \in Signatures, k \in SignSecrets : Verify(raw, sig, k)
    \/ \E p \in SignPayloads, k \in SignSecrets, rk \in SignSecrets : Receive(p, k, rk)

SpecSign == InitSign /\ [][NextSign]_vars

----------------------------------------------------------------------------
(* Properties of the signature primitive *)

\* C10: with an empty secret sign_webhook_payload returns the empty string for
\* every payload and verify_webhook returns false for every payload and every
\* signature, the empty one included; a delivery for a webhook without a
\* secret carries an empty X-Webhook-Signature, which no receiver verifies.
C10_EmptySecretNeverVerifies ==
    /\ (check.op = "sign" /\ check.secret = "") => check.signed = <<>>
    /\ (check.op = "verify" /\ check.receiver_secret = "") =>
          (~check.verified.raised /\ check.verified.value = FALSE)
    /\ (check.op = "deliver" /\ check.secret = "") =>
          /\ check.signature = <<>>
          /\ ~check.verified.raised
          /\ check.verified.value = FALSE

C10_Witness ==
    /\ check.op = "verify"
    /\ check.receiver_secret = ""
    /\ check.signature = <<>>
    /\ json_loads(check.raw).ok

----------------------------------------------------------------------------
(* services/email_parser.py: the fallback to the completion service.        *)
(* Confidences are in hundredths; a str is its sequence of characters, or   *)
(* its length where only the length matters.                                *)

LinkTypes ==
    {"verification", "reset_password", "confirmation", "unsubscribe", "magic_link",
     "generic"}

OTPCode(code, confidence, context, position, method) ==
    [code |-> code, confidence |-> confidence, context |-> context,
     position |-> position, method |-> method]

ConfirmationLink(url, link_type, confidence, text, context, method) ==
    [url |-> url, link_type |-> link_type, confidence |-> confidence,
     text |-> text, context |-> context, method |-> method]

DigitChars == {"0", "1", "2", "3", "4", "5", "6", "7", "8", "9"}

\* str.isdigit()
isdigit(str) == Len(str) > 0 /\ \A i \in 1..Len(str) : str[i] \in DigitChars

Min(a, b) == IF a < b THEN a ELSE b
Max(a, b) == IF a > b THEN a ELSE b

\* Mutant: the confidence is taken as the service gives it.
Unclamped(confidence) == confidence

\* max(0.0, min(1.0, confidence))
Clamp(confidence) == Max(0, Min(100, confidence))

\* seq[:n]
Truncate(seq, n) == SubSeq(seq, 1, Min(Len(seq), n))

\* A token of the text the service answers with: a code fence, a bracket,
\* prose, or a JSON value with its members.
Token(t, item) == [t |-> t, item |-> item]

\* content.strip() without a leading code fence (with or without "json")
\* and a trailing one.
StripFences(content) ==
    LET c1 == IF content # <<>> /\ content[1].t = "fence_json" THEN Tail(content)
              ELSE content
        c2 == IF c1 # <<>> /\ c1[1].t = "fence" THEN Tail(c1) ELSE c1
    IN IF c2 # <<>> /\ c2[Len(c2)].t = "fence" THEN SubSeq(c2, 1, Len(c2) - 1) ELSE c2

\* json.loads of a text that starts with "[": the list of its values, or
\* ok FALSE where it raises JSONDecodeError.
LoadArray(content) ==
    IF /\ Len(content) >= 2
       /\ content[Len(content)].t = "]"
       /\ \A i \in 2..(Len(content) - 1) : content[i].t \in {"object", "string"}
    THEN [ok |-> TRUE, value |-> SubSeq(content, 2, Len(content) - 1)]
    ELSE [ok |-> FALSE, value |-> <<>>]

\* The result of a fallback function: the list it returns, or the error it raises.
Returns(value) == [raised |-> FALSE, error |-> None, value |-> value]
Raises(error) == [raised |-> TRUE, error |-> error, value |-> <<>>]

\* The code of an item passes "code.isdigit() and 4 <= len(code) <= 8".
ValidCode(code) == isdigit(code) /\ Len(code) >= 4 /\ Len(code) <= 8

\* The loop over codes_data: an item that is no dict or whose code is not
\* 4 to 8 digits is skipped; float() of a confidence that is no number raises.
RECURSIVE ValidateCodes(_)
ValidateCodes(items) ==
    IF items = <<>> THEN [ok |-> TRUE, value |-> <<>>]
    ELSE LET tok == Head(items)
             rest == ValidateCodes(Tail(items))
         IN IF tok.t # "object" \/ ~ValidCode(tok.item.code) THEN rest
            ELSE IF tok.item.confidence.kind = "text" THEN [ok |-> FALSE, value |-> <<>>]
            ELSE IF ~rest.ok THEN rest
            ELSE [ok |-> TRUE,
                  value |-> <<OTPCode(tok.item.code,
                                      Clamp(IF tok.item.confidence.kind = "missing"
                                            THEN DEFAULT_CONFIDENCE
                                            ELSE tok.item.confidence.value),
                                      Min(tok.item.context, 100), -1, "llm")>>
                            \o rest.value]

\* Mutant: one invalid element rejects the whole response.
ExtractCodesAllOrNothing(api_key, reply) ==
    IF ~api_key THEN Returns(<<>>)
    ELSE IF reply.kind # "response" \/ reply.status # 200 THEN Returns(<<>>)
    ELSE LET content == StripFences(reply.content)
         IN IF content = <<>> \/ content[1].t # "[" THEN Returns(<<>>)
            ELSE LET codes_data == LoadArray(content)
                 IN IF ~codes_data.ok THEN Returns(<<>>)
                    ELSE LET first == Truncate(codes_data.value, MAX_CODES)
                             validated == ValidateCodes(first)
                         IN IF validated.ok /\ Len(validated.value) = Len(first)
                            THEN Returns(validated.value)
                            ELSE Returns(<<>>)

\* Mutant: the list is validated whole, without the cap.
ExtractCodesUncapped(api_key, reply) ==
    IF ~api_key THEN Returns(<<>>)
    ELSE IF reply.kind # "response" \/ reply.status # 200 THEN Returns(<<>>)
    ELSE LET content == StripFences(reply.content)
         IN IF content = <<>> \/ content[1].t # "[" THEN Returns(<<>>)
            ELSE LET codes_data == LoadArray(content)
                 IN IF ~codes_data.ok THEN Returns(<<>>)
                    ELSE LET validated == ValidateCodes(codes_data.value)
                         IN IF validated.ok THEN Returns(validated.value)
                            ELSE Returns(<<>>)

\* extract_otps_llm(text) with the service answering reply.  Every exception
\* in the try block (the POST raising, response.json() or the indexing of
\* its content raising, json.loads or float() raising) is caught by one of
\* the two except clauses, after which the function returns [].
extract_otps_llm(api_key, reply) ==
    IF ~api_key THEN Returns(<<>>)
    ELSE IF reply.kind # "response" THEN Returns(<<>>)
    ELSE IF reply.status # 200 THEN Returns(<<>>)
    ELSE LET content == StripFences(reply.content)
         IN IF content = <<>> \/ content[1].t # "[" THEN Returns(<<>>)
            ELSE LET codes_data == LoadArray(content)
                 IN IF ~codes_data.ok THEN Returns(<<>>)
                    ELSE LET validated ==
                                ValidateCodes(Truncate(codes_data.value, MAX_CODES))
                         IN IF validated.ok THEN Returns(validated.value)
                            ELSE Returns(<<>>)

\* The url of an item passes the protocol and the length checks.
ValidUrl(url) ==
    /\ url.scheme \in {"http://", "https://"}
    /\ url.length <= MAX_URL_LENGTH

\* LinkType(link_type_str), GENERIC on ValueError
ToLinkType(link_type_str) ==
    IF link_type_str \in LinkTypes THEN link_type_str ELSE "generic"

\* The loop over links_data.
RECURSIVE ValidateLinks(_)
ValidateLinks(items) ==
    IF items = <<>> THEN [ok |-> TRUE, value |-> <<>>]
    ELSE LET tok == Head(items)
             rest == ValidateLinks(Tail(items))
         IN IF tok.t # "object" \/ ~ValidUrl(tok.item.url) THEN rest
            ELSE IF tok.item.confidence.kind = "text" THEN [ok |-> FALSE, value |-> <<>>]
            ELSE IF ~rest.ok THEN rest
            ELSE [ok |-> TRUE,
                  value |-> <<ConfirmationLink(
                                  tok.item.url, ToLinkType(tok.item.link_type),
                                  Clamp(IF tok.item.confidence.kind = "missing"
                                        THEN DEFAULT_CONFIDENCE
                                        ELSE tok.item.confidence.value),
                                  Min(tok.item.text, 200), Min(tok.item.context, 200),
                                  "llm")>>
                            \o rest.value]

\* extract_links_llm(text) with the service answering reply.  "import json"
\* inside the try block makes json a local name of the function: an
\* exception raised before that statement has run (the POST raising,
\* response.json() or the indexing raising) reaches "except
\* json.JSONDecodeError" with json unbound, and evaluating the clause raises
\* UnboundLocalError out of the function.
extract_links_llm(api_key, reply) ==
    IF ~api_key THEN Returns(<<>>)
    ELSE IF reply.kind # "response" THEN Raises("UnboundLocalError")
    ELSE IF reply.status # 200 THEN Returns(<<>>)
    ELSE LET content == StripFences(reply.content)
         IN IF content = <<>> \/ content[1].t # "[" THEN Returns(<<>>)
            ELSE LET links_data == LoadArray(content)
                 IN IF ~links_data.ok THEN Returns(<<>>)
                    ELSE LET validated ==
                                ValidateLinks(Truncate(links_data.value, MAX_LINKS))
                         IN IF validated.ok THEN Returns(validated.value)
                            ELSE Returns(<<>>)

(* services/email_parser.py: merge, intent, summary *)

\* seen[key], for a key of dict seen
DictGet(d, k) == d[CHOOSE i \in 1..Len(d) : d[i][1] = k][2]

HasKey(d, k) == \E i \in 1..Len(d) : d[i][1] = k

\* for x in regex results: seen[key] = x
RECURSIVE SeenFirst(_, _)
SeenFirst(seen, pairs) ==
    IF pairs = <<>> THEN seen
    ELSE SeenFirst(DictSet(seen, Head(pairs)[1], Head(pairs)[2]), Tail(pairs))

\* Mutant: the fallback's entry also wins a tie.
RECURSIVE SeenIfNotLower(_, _)
SeenIfNotLower(seen, pairs) ==
    IF pairs = <<>> THEN seen
    ELSE LET k == Head(pairs)[1]
             x == Head(pairs)[2]
             next == IF ~HasKey(seen, k) \/ x.confidence >= DictGet(seen, k).confidence
                     THEN DictSet(seen, k, x) ELSE seen
         IN SeenIfNotLower(next, Tail(pairs))

\* for x in llm results: if key not in seen or x.confidence >
\* seen[key].confidence: seen[key] = x
RECURSIVE SeenIfHigher(_, _)
SeenIfHigher(seen, pairs) ==
    IF pairs = <<>> THEN seen
    ELSE LET k == Head(pairs)[1]
             x == Head(pairs)[2]
             next == IF ~HasKey(seen, k) \/ x.confidence > DictGet(seen, k).confidence
                     THEN DictSet(seen, k, x) ELSE seen
         IN SeenIfHigher(next, Tail(pairs))

\* list.sort(key=confidence, reverse=True) is stable: x goes behind every
\* entry of at least its confidence.
RECURSIVE InsertByConfidence(_, _)
InsertByConfidence(x, sorted) ==
    IF sorted = <<>> THEN <<x>>
    ELSE IF Head(sorted).confidence >= x.confidence
         THEN <<Head(sorted)>> \o InsertByConfidence(x, Tail(sorted))
         ELSE <<x>> \o sorted

RECURSIVE SortByConfidence(_)
SortByConfidence(list) ==
    IF list = <<>> THEN <<>>
    ELSE InsertByConfidence(list[Len(list)],
                            SortByConfidence(SubSeq(list, 1, Len(list) - 1)))

\* list(seen.values())
Values(seen) == [i \in 1..Len(seen) |-> seen[i][2]]

\* _merge_otps(regex_otps, llm_otps)
merge_otps(regex_otps, llm_otps) ==
    LET first == SeenFirst(<<>>, [i \in 1..Len(regex_otps) |->
                                    <<regex_otps[i].code, regex_otps[i]>>])
        seen == SeenIfHigher(first, [i \in 1..Len(llm_otps) |->
                                        <<llm_otps[i].code, llm_otps[i]>>])
    IN SortByConfidence(Values(seen))

\* _merge_links(regex_links, llm_links)
merge_links(regex_links, llm_links) ==
    LET first == SeenFirst(<<>>, [i \in 1..Len(regex_links) |->
                                    <<regex_links[i].url, regex_links[i]>>])
        seen == SeenIfHigher(first, [i \in 1..Len(llm_links) |->
                                        <<llm_links[i].url, llm_links[i]>>])
    IN SortByConfidence(Values(seen))

\* _determine_intent(text, otps, links); text is the set of the keywords
\* that text.lower() contains.
\* Mutant: the verify/confirm rule is tried before the login/sign in rule.
DetermineIntentVerifyFirst(text, otps, links) ==
    IF otps # <<>>
    THEN IF "verify" \in text \/ "confirm" \in text THEN "verification"
         ELSE IF "login" \in text \/ "sign in" \in text THEN "authentication"
         ELSE IF "reset" \in text \/ "password" \in text THEN "password_reset"
         ELSE "authentication"
    ELSE IF links # <<>>
    THEN CASE links[1].link_type = "verification" -> "verification"
           [] links[1].link_type = "reset_password" -> "password_reset"
           [] links[1].link_type = "confirmation" -> "confirmation"
           [] links[1].link_type = "magic_link" -> "magic_link_auth"
           [] OTHER -> "unknown"
    ELSE "unknown"

determine_intent(text, otps, links) ==
    IF otps # <<>>
    THEN IF "login" \in text \/ "sign in" \in text THEN "authentication"
         ELSE IF "verify" \in text \/ "confirm" \in text THEN "verification"
         ELSE IF "reset" \in text \/ "password" \in text THEN "password_reset"
         ELSE "authentication"
    ELSE IF links # <<>>
    THEN CASE links[1].link_type = "verification" -> "verification"
           [] links[1].link_type = "reset_password" -> "password_reset"
           [] links[1].link_type = "confirmation" -> "confirmation"
           [] links[1].link_type = "magic_link" -> "magic_link_auth"
           [] OTHER -> "unknown"
    ELSE "unknown"

\* intent.replace("_", " ")
ReplaceUnderscores(intent) ==
    CASE intent = "password_reset" -> "password reset"
      [] intent = "magic_link_auth" -> "magic link auth"
      [] OTHER -> intent

SummaryPart(kind, count, codes, intent) ==
    [kind |-> kind, count |-> count, codes |-> codes, intent |-> intent]

\* Mutant: every code is listed, not the first three.
GenerateSummaryAllCodes(otps, links, intent) ==
    LET action_links == SelectSeq(links, LAMBDA l : l.link_type # "unsubscribe")
        parts ==
            (IF otps # <<>>
             THEN <<SummaryPart("Found OTP code(s)", Len(otps),
                                [i \in 1..Len(otps) |-> otps[i].code], "")>>
             ELSE <<>>)
            \o (IF action_links # <<>>
                THEN <<SummaryPart("Found action link(s)", Len(action_links), <<>>, "")>>
                ELSE <<>>)
            \o (IF intent # "unknown"
                THEN <<SummaryPart("Intent", 0, <<>>, ReplaceUnderscores(intent))>>
                ELSE <<>>)
    IN IF parts # <<>> THEN parts
       ELSE <<SummaryPart("No actionable items found", 0, <<>>, "")>>

\* _generate_summary(otps, links, intent): the parts that ". " joins, or the
\* one sentence "No actionable items found".
generate_summary(otps, links, intent) ==
    LET action_links == SelectSeq(links, LAMBDA l : l.link_type # "unsubscribe")
        parts ==
            (IF otps # <<>>
             THEN <<SummaryPart("Found OTP code(s)", Len(otps),
                                [i \in 1..Min(Len(otps), 3) |-> otps[i].code], "")>>
             ELSE <<>>)
            \o (IF action_links # <<>>
                THEN <<SummaryPart("Found action link(s)", Len(action_links), <<>>, "")>>
                ELSE <<>>)
            \o (IF intent # "unknown"
                THEN <<SummaryPart("Intent", 0, <<>>, ReplaceUnderscores(intent))>>
                ELSE <<>>)
    IN IF parts # <<>> THEN parts
       ELSE <<SummaryPart("No actionable items found", 0, <<>>, "")>>

\* max(otp.confidence for otp in otps)
MaxConfidence(otps) ==
    CHOOSE c \in {otps[i].confidence : i \in 1..Len(otps)} :
        \A i \in 1..Len(otps) : otps[i].confidence <= c

\* Mutant: the links are left out of the decision.
NeedsLlmForCodesOnly(use_llm_fallback, regex_otps, regex_links) ==
    use_llm_fallback
    /\ (\/ Len(regex_otps) = 0
        \/ (regex_otps # <<>> /\ MaxConfidence(regex_otps) < LLM_THRESHOLD))

\* needs_llm
NeedsLlm(use_llm_fallback, regex_otps, regex_links) ==
    use_llm_fallback
    /\ (\/ Len(regex_otps) = 0
        \/ (regex_otps # <<>> /\ MaxConfidence(regex_otps) < LLM_THRESHOLD)
        \/ Len(regex_links) = 0)

\* Mutant: any link requires an action, an unsubscribe link too.
ParseResultAnyLink(text, regex_otps, regex_links, llm_otps, llm_links, needs_llm) ==
    LET all_otps == merge_otps(regex_otps, llm_otps)
        all_links == merge_links(regex_links, llm_links)
        sender_intent == determine_intent(text, all_otps, all_links)
    IN [otp_codes |-> all_otps,
        links |-> all_links,
        sender_intent |-> sender_intent,
        requires_action |-> (Len(all_otps) > 0 \/ Len(all_links) > 0),
        summary |-> generate_summary(all_otps, all_links, sender_intent),
        used_llm |-> needs_llm]

\* Steps 3 to 5 of parse and the ParseResult it returns.
ParseResult(text, regex_otps, regex_links, llm_otps, llm_links, needs_llm) ==
    LET all_otps == merge_otps(regex_otps, llm_otps)
        all_links == merge_links(regex_links, llm_links)
        sender_intent == determine_intent(text, all_otps, all_links)
    IN [otp_codes |-> all_otps,
        links |-> all_links,
        sender_intent |-> sender_intent,
        requires_action |->
            (Len(all_otps) > 0
             \/ \E i \in 1..Len(all_links) : all_links[i].link_type # "unsubscribe"),
        summary |-> generate_summary(all_otps, all_links, sender_intent),
        used_llm |-> needs_llm]

----------------------------------------------------------------------------
(* services/email_parser.py: the regex engine.                              *)
(* A text is modelled by the matches re.finditer yields on it, pattern by   *)
(* pattern and in text order within a pattern, and a match by what the code *)
(* reads of it: the pattern, the captured code or URL, and which keywords   *)
(* its context window and anchor text hold. In this engine a confidence is  *)
(* in units of 10^-5, so that the products by 0.9, 0.7, 0.6 and 0.5 are     *)
(* exact.                                                                   *)

Hundredths(n) == n * 1000

\* self.otp_patterns: the base confidence of each pattern, in hundredths
otp_patterns == <<95, 95, 95, 90, 90, 85, 85, 85, 60, 40>>

\* self.link_patterns: the kind and the base confidence of each pattern
link_patterns ==
    << <<"verification", 95>>, <<"confirmation", 95>>, <<"verification", 95>>,
       <<"verification", 90>>, <<"reset_password", 95>>, <<"reset_password", 85>>,
       <<"magic_link", 90>>, <<"magic_link", 90>>, <<"unsubscribe", 95>>,
       <<"generic", 50>> >>

\* Mutant: the boosts are added without the cap at 1.0.
AdjustOtpUncapped(code, strong, weak, base_confidence) ==
    LET c1 == IF strong THEN base_confidence + Hundredths(10) ELSE base_confidence
        c2 == IF weak THEN (c1 * 7) \div 10 ELSE c1
        c3 == IF Len(code) = 6 THEN c2 + Hundredths(5) ELSE c2
        c4 == IF Len(code) = 4 THEN (c3 * 6) \div 10 ELSE c3
    IN IF Cardinality({code[i] : i \in 1..Len(code)}) <= 2 THEN c4 \div 2 ELSE c4

\* _adjust_otp_confidence(code, context, base_confidence); strong and weak
\* say whether the context holds a strong, a weak indicator.
adjust_otp_confidence(code, strong, weak, base_confidence) ==
    LET c1 == IF strong THEN Min(Hundredths(100), base_confidence + Hundredths(10))
              ELSE base_confidence
        c2 == IF weak THEN (c1 * 7) \div 10 ELSE c1
        c3 == IF Len(code) = 6 THEN Min(Hundredths(100), c2 + Hundredths(5)) ELSE c2
        c4 == IF Len(code) = 4 THEN (c3 * 6) \div 10 ELSE c3
    IN IF Cardinality({code[i] : i \in 1..Len(code)}) <= 2 THEN c4 \div 2 ELSE c4

\* Mutant: a value is marked as seen by its first match, kept or not.
RECURSIVE ScanOtpsSeenAlways(_, _, _)
ScanOtpsSeenAlways(matches, otps, seen_codes) ==
    IF matches = <<>> THEN otps
    ELSE LET m == Head(matches)
             confidence == adjust_otp_confidence(m.code, m.strong, m.weak,
                                                 Hundredths(otp_patterns[m.pattern]))
         IN IF m.code \in seen_codes
            THEN ScanOtpsSeenAlways(Tail(matches), otps, seen_codes)
            ELSE IF confidence >= Hundredths(50)
            THEN ScanOtpsSeenAlways(Tail(matches),
                     Append(otps, OTPCode(m.code, confidence, m.context, m.position,
                                          "regex")),
                     seen_codes \cup {m.code})
            ELSE ScanOtpsSeenAlways(Tail(matches), otps, seen_codes \cup {m.code})

\* The two loops of extract_otps_regex over the matches.
RECURSIVE ScanOtps(_, _, _)
ScanOtps(matches, otps, seen_codes) ==
    IF matches = <<>> THEN otps
    ELSE LET m == Head(matches)
             confidence == adjust_otp_confidence(m.code, m.strong, m.weak,
                                                 Hundredths(otp_patterns[m.pattern]))
         IN IF m.code \in seen_codes
            THEN ScanOtps(Tail(matches), otps, seen_codes)
            ELSE IF confidence >= Hundredths(50)
            THEN ScanOtps(Tail(matches),
                     Append(otps, OTPCode(m.code, confidence, m.context, m.position,
                                          "regex")),
                     seen_codes \cup {m.code})
            ELSE ScanOtps(Tail(matches), otps, seen_codes)

\* extract_otps_regex(text)
extract_otps_regex(matches) == SortByConfidence(ScanOtps(matches, <<>>, {}))

\* The action words, the words of a kind and the generic phrases that an
\* anchor text holds; "" is no anchor text.
action_words == {"verify", "click here", "sign in"}
kind_words ==
    [k \in LinkTypes |->
        CASE k = "verification" -> {"verify"}
          [] k = "reset_password" -> {"reset"}
          [] k = "magic_link" -> {"sign in"}
          [] OTHER -> {}]
generic_link_text == {"click here", "here"}

\* _adjust_link_confidence(url, link_text, context, base_confidence,
\* link_type); context_action says whether the context holds an action word,
\* kind_in_url whether the URL holds the kind's name.
adjust_link_confidence(url, link_text, context_action, kind_in_url, base_confidence, link_type) ==
    LET c1 == IF context_action
              THEN Min(Hundredths(100), base_confidence + Hundredths(10))
              ELSE base_confidence
        c2 == IF link_text \in action_words
              THEN Min(Hundredths(100), c1 + Hundredths(15)) ELSE c1
        c3 == IF link_text \in kind_words[link_type]
              THEN Min(Hundredths(100), c2 + Hundredths(10)) ELSE c2
        c4 == IF link_text \in generic_link_text THEN (c3 * 9) \div 10 ELSE c3
        c5 == IF link_type # "generic" /\ kind_in_url
              THEN Min(Hundredths(100), c4 + Hundredths(5)) ELSE c4
        c6 == IF link_type = "generic" /\ ~context_action /\ link_text \notin action_words
              THEN c5 \div 2 ELSE c5
    IN IF url.scheme = "https://" THEN Min(Hundredths(100), c6 + Hundredths(5)) ELSE c6

\* The two loops of extract_links_regex over the matches.
RECURSIVE ScanLinks(_, _, _)
ScanLinks(matches, links, seen_urls) ==
    IF matches = <<>> THEN links
    ELSE LET m == Head(matches)
             link_type == link_patterns[m.pattern][1]
             confidence ==
                 adjust_link_confidence(m.url, m.link_text, m.context_action,
                                        m.kind_in_url,
                                        Hundredths(link_patterns[m.pattern][2]),
                                        link_type)
         IN IF m.url \in seen_urls
            THEN ScanLinks(Tail(matches), links, seen_urls)
            ELSE IF confidence >= Hundredths(50)
            THEN ScanLinks(Tail(matches),
                     Append(links, ConfirmationLink(m.url, link_type, confidence,
                                                    m.link_text, m.context, "regex")),
                     seen_urls \cup {m.url})
            ELSE ScanLinks(Tail(matches), links, seen_urls)

\* extract_links_regex(text)
extract_links_regex(matches) == SortByConfidence(ScanLinks(matches, <<>>, {}))

----------------------------------------------------------------------------
(* EmailParser.parse, step by step *)

Code6 == <<"4", "8", "2", "9", "1", "3">>
Code4 == <<"7", "3", "1", "9">>
Code8 == <<"1", "2", "3", "4", "5", "6", "7", "8">>
Code3 == <<"1", "2", "3">>
Code9 == <<"1", "2", "3", "4", "5", "6", "7", "8", "9">>
CodeAlpha == <<"4", "8", "2", "a", "1", "3">>
CodeRepeated == <<"1", "1", "2", "2", "1", "1">>

Url(scheme, path, length) == [scheme |-> scheme, path |-> path, length |-> length]

VerifyUrl == Url("https://", "app.example/verify/abc", 30)
ResetUrl == Url("http://", "app.example/reset/xyz", 29)
UnsubscribeUrl == Url("https://", "news.example/unsubscribe", 33)

\* A confidence member of an item: a number, a text, or absent.
Number(n) == [kind |-> "number", value |-> n]
NotANumber == [kind |-> "text", value |-> 0]
Missing == [kind |-> "missing", value |-> 0]

CodeItem(code, confidence, context) ==
    Token("object", [code |-> code, confidence |-> confidence, context |-> context])

NoCodeItem == [code |-> <<>>, confidence |-> Missing, context |-> 0]

LinkItem(url, link_type, confidence, text, context) ==
    Token("object", [url |-> url, link_type |-> link_type, confidence |-> confidence,
                     text |-> text, context |-> context])

NoLinkItem ==
    [url |-> Url("", "", 0), link_type |-> "", confidence |-> Missing,
     text |-> 0, context |-> 0]

\* The service answers 200 with a message whose text is content.
Response(content) == [kind |-> "response", status |-> 200, content |-> content]

\* A JSON array of items, as text, bare or inside a code fence.
ArrayText(items, none, fence) ==
    (IF fence = "none" THEN <<>> ELSE <<Token(fence, none)>>)
    \o <<Token("[", none)>> \o items \o <<Token("]", none)>>
    \o (IF fence = "none" THEN <<>> ELSE <<Token("fence", none)>>)

\* How a call of the service fails: the POST raises, the status is not 200,
\* the body is no JSON (response.json() raises), or it has no content[0].text.
FailedReplies ==
    { [kind |-> "ConnectError", status |-> 0, content |-> <<>>],
      [kind |-> "ReadTimeout", status |-> 0, content |-> <<>>],
      [kind |-> "response", status |-> 500, content |-> <<>>],
      [kind |-> "JSONDecodeError", status |-> 200, content |-> <<>>],
      [kind |-> "KeyError", status |-> 200, content |-> <<>>] }

\* What the regex engine returns for the texts parsed here: lists without
\* duplicates, sorted by confidence.
RegexOtpLists ==
    { <<>>,
      <<OTPCode(Code6, 100, 40, 21, "regex")>>,
      <<OTPCode(Code6, 65, 40, 21, "regex")>>,
      <<OTPCode(Code8, 95, 40, 5, "regex"), OTPCode(Code6, 65, 40, 21, "regex")>>,
      <<OTPCode(Code6, 100, 40, 21, "regex"), OTPCode(Code8, 95, 40, 5, "regex"),
        OTPCode(Code4, 57, 40, 70, "regex"), OTPCode(CodeRepeated, 50, 40, 90, "regex")>> }

RegexLinkLists ==
    { <<>>,
      <<ConfirmationLink(VerifyUrl, "verification", 100, 6, 80, "regex")>>,
      <<ConfirmationLink(UnsubscribeUrl, "unsubscribe", 100, 0, 80, "regex")>>,
      <<ConfirmationLink(ResetUrl, "magic_link", 90, 0, 80, "regex")>>,
      <<ConfirmationLink(VerifyUrl, "confirmation", 100, 0, 80, "regex"),
        ConfirmationLink(ResetUrl, "magic_link", 90, 0, 80, "regex")>>,
      <<ConfirmationLink(VerifyUrl, "generic", 65, 0, 80, "regex")>> }

\* The keywords the texts parsed here contain.
Texts ==
    { {}, {"login"}, {"verify", "reset"}, {"password"}, {"sign in", "confirm"},
      {"login", "verify", "reset"} }

\* The service's answers to the prompt for codes.
ParseOtpReplies ==
    FailedReplies
    \cup { Response(<<Token("prose", NoCodeItem)>>),
           Response(ArrayText(<<CodeItem(Code6, Number(95), 30)>>, NoCodeItem, "none")) }

\* The service's answers to the prompt for links.
ParseLinkReplies ==
    FailedReplies
    \cup { Response(<<Token("prose", NoLinkItem)>>),
           Response(ArrayText(<<LinkItem(ResetUrl, "reset_password", Number(90), 5, 20)>>,
                              NoLinkItem, "fence_json")) }

\* parse(text, html, use_llm_fallback) up to the decision: the regex engine
\* has run on the combined text.
parse_call(text, use_llm_fallback, api_key, regex_otps, regex_links) ==
    /\ parser.pc = "idle"
    /\ parser' = [NoParse EXCEPT
                    !.op = "parse", !.pc = "decided", !.text = text,
                    !.use_llm_fallback = use_llm_fallback, !.api_key = api_key,
                    !.regex_otps = regex_otps, !.regex_links = regex_links,
                    !.needs_llm = NeedsLlm(use_llm_fallback, regex_otps, regex_links)]
    /\ UNCHANGED <<events, webhooks, session, call, task, httpx_compact, check,
                   messages, frames>>

\* llm_otps = await self.extract_otps_llm(combined_text)
parse_extract_otps_llm(reply) ==
    /\ parser.op = "parse"
    /\ parser.pc = "decided"
    /\ parser.needs_llm
    /\ LET r == extract_otps_llm(parser.api_key, reply)
       IN parser' = [parser EXCEPT
                       !.calls = Append(@, "extract_otps_llm"),
                       !.otp_reply = reply,
                       !.pc = IF r.raised THEN "raised" ELSE "otps_done",
                       !.error = r.error,
                       !.llm_otps = r.value]
    /\ UNCHANGED <<events, webhooks, session, call, task, httpx_compact, check,
                   messages, frames>>

\* llm_links = await self.extract_links_llm(combined_text)
parse_extract_links_llm(reply) ==
    /\ parser.op = "parse"
    /\ parser.pc = "otps_done"
    /\ LET r == extract_links_llm(parser.api_key, reply)
       IN parser' = [parser EXCEPT
                       !.calls = Append(@, "extract_links_llm"),
                       !.link_reply = reply,
                       !.pc = IF r.raised THEN "raised" ELSE "links_done",
                       !.error = r.error,
                       !.llm_links = r.value]
    /\ UNCHANGED <<events, webhooks, session, call, task, httpx_compact, check,
                   messages, frames>>

\* Merge, intent, requires_action, summary; return ParseResult(...).
parse_return ==
    /\ parser.op = "parse"
    /\ \/ parser.pc = "links_done"
       \/ parser.pc = "decided" /\ ~parser.needs_llm
    /\ parser' = [parser EXCEPT
                    !.pc = "returned",
                    !.result = ParseResult(parser.text, parser.regex_otps,
                                           parser.regex_links, parser.llm_otps,
                                           parser.llm_links, parser.needs_llm)]
    /\ UNCHANGED <<events, webhooks, session, call, task, httpx_compact, check,
                   messages, frames>>

InitParse ==
    /\ events = {}
    /\ webhooks = {}
    /\ session = NewSession
    /\ call = IdleCall
    /\ task = <<>>
    /\ httpx_compact = TRUE
    /\ check = NoCheck
    /\ messages = NoMessages
    /\ frames = IdleFrames
    /\ parser = NoParse

NextParse ==
    \/ \E text \in Texts, use_llm_fallback \in BOOLEAN, api_key \in BOOLEAN,
          regex_otps \in RegexOtpLists, regex_links \in RegexLinkLists :
          parse_call(text, use_llm_fallback, api_key, regex_otps, regex_links)
    \/ \E reply \in ParseOtpReplies : parse_extract_otps_llm(reply)
    \/ \E reply \in ParseLinkReplies : parse_extract_links_llm(reply)
    \/ parse_return

SpecParse == InitParse /\ [][NextParse]_vars

----------------------------------------------------------------------------
(* Properties of parse *)

\* C16: parse invokes the fallback, extract_otps_llm and then
\* extract_links_llm, if and only if use_llm_fallback is true and the regex
\* engine found no code, or no code of confidence 0.7 or more, or no link;
\* with use_llm_fallback false it invokes neither.
C16_FallbackIffNeeded ==
    LET weak == \A i \in 1..Len(parser.regex_otps) : parser.regex_otps[i].confidence < 70
        needed == parser.use_llm_fallback
                  /\ (parser.regex_otps = <<>> \/ weak \/ parser.regex_links = <<>>)
    IN /\ (parser.op = "parse" /\ ~needed) => parser.calls = <<>>
       /\ (parser.op = "parse" /\ parser.pc = "returned" /\ needed) =>
             parser.calls = <<"extract_otps_llm", "extract_links_llm">>
       /\ (parser.op = "parse" /\ needed) =>
             parser.calls \in { <<>>, <<"extract_otps_llm">>,
                                <<"extract_otps_llm", "extract_links_llm">> }

\* Strong codes and no links: the fallback was called.
C16_Witness ==
    /\ parser.op = "parse"
    /\ parser.pc = "returned"
    /\ parser.use_llm_fallback
    /\ parser.regex_otps # <<>>
    /\ parser.regex_otps[1].confidence = 100
    /\ parser.regex_links = <<>>
    /\ parser.calls = <<"extract_otps_llm", "extract_links_llm">>

\* The call of the service ended in an error, a non-200 status or a
\* malformed body, or the API key is missing.
FailedCall(api_key, reply) == ~api_key \/ reply \in FailedReplies

\* C17: the fallback fails open: when the call of the completion service
\* ends in a network error, a timeout, a non-200 status, a missing API key or
\* a malformed response, extract_otps_llm and extract_links_llm return an
\* empty list without raising, and parse returns the result of the same
\* parse with the fallback disabled.
C17_FallbackFailsOpen ==
    /\ (parser.op = "parse" /\ parser.calls # <<>>
            /\ FailedCall(parser.api_key, parser.otp_reply)) =>
          (parser.llm_otps = <<>> /\ (Len(parser.calls) = 1 => parser.pc # "raised"))
    /\ (parser.op = "parse" /\ Len(parser.calls) = 2
            /\ FailedCall(parser.api_key, parser.link_reply)) =>
          (parser.llm_links = <<>> /\ parser.pc # "raised")
    /\ (parser.op = "parse" /\ parser.pc = "returned" /\ Len(parser.calls) = 2
            /\ FailedCall(parser.api_key, parser.otp_reply)
            /\ FailedCall(parser.api_key, parser.link_reply)) =>
          LET regex_only == ParseResult(parser.text, parser.regex_otps,
                                        parser.regex_links, <<>>, <<>>, FALSE)
          IN /\ parser.result.otp_codes = regex_only.otp_codes
             /\ parser.result.links = regex_only.links
             /\ parser.result.sender_intent = regex_only.sender_intent
             /\ parser.result.requires_action = regex_only.requires_action
             /\ parser.result.summary = regex_only.summary

\* parse has returned a ParseResult.
Parsed == parser.op = "parse" /\ parser.pc = "returned"

\* The intent a link kind maps to.
IntentOfKind(kind) ==
    CASE kind = "verification" -> "verification"
      [] kind = "reset_password" -> "password_reset"
      [] kind = "confirmation" -> "confirmation"
      [] kind = "magic_link" -> "magic_link_auth"
      [] OTHER -> "unknown"

\* C23: the intent follows the first matching rule: with a code present it
\* is authentication if the text contains login or sign in, else verification
\* if it contains verify or confirm, else password_reset if it contains reset
\* or password, else authentication; with no code and links present it is the
\* mapping of the highest-confidence link's kind; with neither it is unknown.
C23_IntentFirstMatchingRule ==
    Parsed =>
        LET r == parser.result
            t == parser.text
        IN /\ r.otp_codes # <<>> =>
                 /\ ({"login", "sign in"} \cap t # {}) => r.sender_intent = "authentication"
                 /\ ({"login", "sign in"} \cap t = {} /\ {"verify", "confirm"} \cap t # {})
                       => r.sender_intent = "verification"
                 /\ ({"login", "sign in", "verify", "confirm"} \cap t = {}
                        /\ {"reset", "password"} \cap t # {})
                       => r.sender_intent = "password_reset"
                 /\ ({"login", "sign in", "verify", "confirm", "reset", "password"} \cap t = {})
                       => r.sender_intent = "authentication"
           /\ (r.otp_codes = <<>> /\ r.links # <<>>) =>
                 \E i \in 1..Len(r.links) :
                    /\ \A j \in 1..Len(r.links) : r.links[i].confidence >= r.links[j].confidence
                    /\ r.sender_intent = IntentOfKind(r.links[i].link_type)
           /\ (r.otp_codes = <<>> /\ r.links = <<>>) => r.sender_intent = "unknown"

\* A code is present and the text contains login, verify and reset: the
\* first rule decides.
C23_Witness ==
    /\ Parsed
    /\ parser.result.otp_codes # <<>>
    /\ {"login", "verify", "reset"} \subseteq parser.text
    /\ parser.result.sender_intent = "authentication"

\* C24: in every ParseResult requires_action is true if and only if the
\* merged result holds at least one code or at least one link whose kind is
\* not unsubscribe.
C24_RequiresAction ==
    Parsed =>
        (parser.result.requires_action <=>
            (\/ parser.result.otp_codes # <<>>
             \/ \E i \in 1..Len(parser.result.links) :
                   parser.result.links[i].link_type # "unsubscribe"))

\* A result with unsubscribe links only: no action required.
C24_Witness ==
    /\ Parsed
    /\ parser.result.otp_codes = <<>>
    /\ parser.result.links # <<>>
    /\ \A i \in 1..Len(parser.result.links) :
          parser.result.links[i].link_type = "unsubscribe"
    /\ ~parser.result.requires_action

NoActionableItems == <<SummaryPart("No actionable items found", 0, <<>>, "")>>

\* The number of links of the result that are no unsubscribe links.
ActionLinkCount ==
    Cardinality({ i \in 1..Len(parser.result.links) :
                    parser.result.links[i].link_type # "unsubscribe" })

\* C25: parsing empty input with the fallback disabled yields no code, no
\* link, requires_action false, intent unknown and the summary "No actionable
\* items found"; in general the summary is that sentence exactly when the
\* result has no code, no link other than unsubscribe links and intent
\* unknown, and otherwise it is the parts, in this order: the number of codes
\* with at most the first 3 code values, the number of links other than
\* unsubscribe links, the intent with underscores replaced by spaces.
C25_Summary ==
    Parsed =>
        LET r == parser.result
            nothing == /\ r.otp_codes = <<>>
                       /\ ActionLinkCount = 0
                       /\ r.sender_intent = "unknown"
            codes == IF r.otp_codes = <<>> THEN <<>>
                     ELSE <<SummaryPart("Found OTP code(s)", Len(r.otp_codes),
                                        [i \in 1..(IF Len(r.otp_codes) > 3 THEN 3
                                                   ELSE Len(r.otp_codes))
                                            |-> r.otp_codes[i].code], "")>>
            links == IF ActionLinkCount = 0 THEN <<>>
                     ELSE <<SummaryPart("Found action link(s)", ActionLinkCount, <<>>, "")>>
            intent == IF r.sender_intent = "unknown" THEN <<>>
                      ELSE <<SummaryPart("Intent", 0, <<>>,
                                         CASE r.sender_intent = "password_reset"
                                                -> "password reset"
                                           [] r.sender_intent = "magic_link_auth"
                                                -> "magic link auth"
                                           [] OTHER -> r.sender_intent)>>
        IN /\ (parser.text = {} /\ parser.regex_otps = <<>> /\ parser.regex_links = <<>>
                 /\ ~parser.use_llm_fallback) =>
                 /\ r.otp_codes = <<>> /\ r.links = <<>>
                 /\ ~r.requires_action
                 /\ r.sender_intent = "unknown"
                 /\ r.summary = NoActionableItems
           /\ (r.summary = NoActionableItems) <=> nothing
           /\ ~nothing => r.summary = codes \o links \o intent

\* Four codes found: the summary counts four and lists the first three.
C25_Witness ==
    /\ Parsed
    /\ Len(parser.result.otp_codes) = 4
    /\ parser.result.summary[1].count = 4
    /\ Len(parser.result.summary[1].codes) = 3

----------------------------------------------------------------------------
(* The fallback functions and the merge functions applied to inputs *)

LongUrl == Url("https://", "app.example/confirm/long", 2001)
LimitUrl == Url("https://", "app.example/confirm/limit", 2000)
FtpUrl == Url("ftp://", "files.example/verify", 27)

\* Items of an answer to the prompt for codes, well formed and not.
CodeItems ==
    { CodeItem(Code6, Number(95), 30),
      CodeItem(Code4, Number(150), 30),
      CodeItem(Code8, Number(-20), 140),
      CodeItem(Code6, Missing, 30),
      CodeItem(CodeAlpha, Number(90), 30),
      CodeItem(Code3, Number(90), 30),
      CodeItem(Code9, Number(90), 30),
      CodeItem(Code6, NotANumber, 30),
      CodeItem(CodeAlpha, NotANumber, 30),
      Token("string", NoCodeItem) }

\* Items of an answer to the prompt for links, well formed and not.
LinkItems ==
    { LinkItem(VerifyUrl, "verification", Number(95), 12, 60),
      LinkItem(ResetUrl, "phishing", Number(150), 250, 300),
      LinkItem(LimitUrl, "confirmation", Number(-5), 5, 20),
      LinkItem(UnsubscribeUrl, "unsubscribe", Missing, 5, 20),
      LinkItem(LongUrl, "confirmation", Number(90), 5, 20),
      LinkItem(FtpUrl, "verification", Number(90), 5, 20),
      LinkItem(VerifyUrl, "verification", NotANumber, 5, 20),
      LinkItem(FtpUrl, "verification", NotANumber, 5, 20),
      Token("string", NoLinkItem) }

\* The arrays of at most two of the items, and arrays longer than the cap:
\* bad items first, then good ones.
ItemLists(items, bad, good, cap) ==
    { <<>> } \cup { <<x>> : x \in items } \cup { <<x, y>> : x, y \in items }
    \cup { [i \in 1..n |-> good] : n \in {cap, cap + 1} }
    \cup { [i \in 1..(cap + 2) |-> IF i <= 2 THEN bad ELSE good] }

\* The texts the service may answer with: prose, a truncated array, the
\* arrays, bare or fenced.
Contents(lists, none) ==
    { <<Token("prose", none)>>, <<>>,
      <<Token("[", none)>>, <<Token("[", none), Token("prose", none), Token("]", none)>> }
    \cup { ArrayText(l, none, f) : l \in lists, f \in {"none", "fence", "fence_json"} }

OtpReplies ==
    FailedReplies
    \cup { Response(c) :
             c \in Contents(ItemLists(CodeItems, CodeItem(CodeAlpha, Number(90), 30),
                                      CodeItem(Code6, Number(95), 30), MAX_CODES),
                            NoCodeItem) }

LinkReplies ==
    FailedReplies
    \cup { Response(c) :
             c \in Contents(ItemLists(LinkItems, LinkItem(FtpUrl, "verification",
                                                          Number(90), 5, 20),
                                      LinkItem(VerifyUrl, "verification",
                                               Number(95), 12, 60), MAX_LINKS),
                            NoLinkItem) }

\* Engine results to merge: no duplicate key, sorted by confidence.
MergeRegexOtps ==
    { <<>>,
      <<OTPCode(Code6, 50, 40, 21, "regex")>>,
      <<OTPCode(Code6, 90, 40, 21, "regex")>>,
      <<OTPCode(Code8, 70, 40, 5, "regex"), OTPCode(Code6, 50, 40, 21, "regex")>> }

\* Fallback results to merge: what extract_otps_llm may return, duplicates
\* included.
MergeLlmOtps ==
    LET entries == { OTPCode(Code6, 90, 30, -1, "llm"), OTPCode(Code6, 50, 30, -1, "llm"),
                     OTPCode(Code8, 40, 30, -1, "llm"), OTPCode(Code4, 70, 30, -1, "llm") }
    IN { <<>> } \cup { <<x>> : x \in entries } \cup { <<x, y>> : x, y \in entries }

MergeRegexLinks ==
    { <<>>,
      <<ConfirmationLink(VerifyUrl, "verification", 50, 6, 80, "regex")>>,
      <<ConfirmationLink(VerifyUrl, "verification", 90, 6, 80, "regex")>>,
      <<ConfirmationLink(ResetUrl, "reset_password", 70, 6, 80, "regex"),
        ConfirmationLink(VerifyUrl, "generic", 50, 6, 80, "regex")>> }

MergeLlmLinks ==
    LET entries == { ConfirmationLink(VerifyUrl, "verification", 90, 12, 60, "llm"),
                     ConfirmationLink(VerifyUrl, "magic_link", 50, 12, 60, "llm"),
                     ConfirmationLink(ResetUrl, "generic", 40, 12, 60, "llm"),
                     ConfirmationLink(UnsubscribeUrl, "unsubscribe", 70, 12, 60, "llm") }
    IN { <<>> } \cup { <<x>> : x \in entries } \cup { <<x, y>> : x, y \in entries }

\* await parser.extract_otps_llm(text), the service answering reply
apply_extract_otps_llm(api_key, reply) ==
    /\ LET r == extract_otps_llm(api_key, reply)
       IN parser' = [NoParse EXCEPT
                       !.op = "extract_otps_llm", !.api_key = api_key,
                       !.otp_reply = reply,
                       !.pc = IF r.raised THEN "raised" ELSE "returned",
                       !.error = r.error, !.llm_otps = r.value]
    /\ UNCHANGED <<events, webhooks, session, call, task, httpx_compact, check,
                   messages, frames>>

\* await parser.extract_links_llm(text), the service answering reply
apply_extract_links_llm(api_key, reply) ==
    /\ LET r == extract_links_llm(api_key, reply)
       IN parser' = [NoParse EXCEPT
                       !.op = "extract_links_llm", !.api_key = api_key,
                       !.link_reply = reply,
                       !.pc = IF r.raised THEN "raised" ELSE "returned",
                       !.error = r.error, !.llm_links = r.value]
    /\ UNCHANGED <<events, webhooks, session, call, task, httpx_compact, check,
                   messages, frames>>

\* parser._merge_otps(regex_otps, llm_otps)
apply_merge_otps(regex_otps, llm_otps) ==
    /\ parser' = [NoParse EXCEPT
                    !.op = "merge_otps", !.pc = "returned",
                    !.regex_otps = regex_otps, !.llm_otps = llm_otps,
                    !.merged = merge_otps(regex_otps, llm_otps)]
    /\ UNCHANGED <<events, webhooks, session, call, task, httpx_compact, check,
                   messages, frames>>

\* parser._merge_links(regex_links, llm_links)
apply_merge_links(regex_links, llm_links) ==
    /\ parser' = [NoParse EXCEPT
                    !.op = "merge_links", !.pc = "returned",
                    !.regex_links = regex_links, !.llm_links = llm_links,
                    !.merged = merge_links(regex_links, llm_links)]
    /\ UNCHANGED <<events, webhooks, session, call, task, httpx_compact, check,
                   messages, frames>>

NextExtract ==
    \/ \E api_key \in BOOLEAN, reply \in OtpReplies : apply_extract_otps_llm(api_key, reply)
    \/ \E api_key \in BOOLEAN, reply \in LinkReplies : apply_extract_links_llm(api_key, reply)
    \/ \E a \in MergeRegexOtps, b \in MergeLlmOtps : apply_merge_otps(a, b)
    \/ \E a \in MergeRegexLinks, b \in MergeLlmLinks : apply_merge_links(a, b)

SpecExtract == InitParse /\ [][NextExtract]_vars

----------------------------------------------------------------------------
(* Properties of the fallback functions and of the merge functions *)

\* The call was made with an API key and the service answered 200 with a text.
Answered(reply) == parser.api_key /\ reply.kind = "response" /\ reply.status = 200

\* The values of the array in the answer, <<>> if the text is no array.
AnswerItems(reply) ==
    LET content == StripFences(reply.content)
    IN IF content # <<>> /\ content[1].t = "[" /\ LoadArray(content).ok
       THEN LoadArray(content).value ELSE <<>>

IsArray(reply) ==
    LET content == StripFences(reply.content)
    IN content # <<>> /\ content[1].t = "[" /\ LoadArray(content).ok

\* An element passes the validation of its fields.
GoodCodeItem(tok) ==
    /\ tok.t = "object"
    /\ isdigit(tok.item.code) /\ Len(tok.item.code) \in 4..8
    /\ tok.item.confidence.kind # "text"

GoodLinkItem(tok) ==
    /\ tok.t = "object"
    /\ tok.item.url.scheme \in {"http://", "https://"}
    /\ tok.item.url.length <= 2000
    /\ tok.item.confidence.kind # "text"

\* C18 as claimed: the fallback returns an empty result without raising if
\* the response does not start with "[", if the parsed value is not an array,
\* or if any element of the array fails field validation.
C18_AnyInvalidElementRejectsAll ==
    /\ (parser.op = "extract_otps_llm" /\ Answered(parser.otp_reply)) =>
          /\ parser.pc # "raised"
          /\ (~IsArray(parser.otp_reply)
                \/ \E i \in 1..Len(AnswerItems(parser.otp_reply)) :
                      ~GoodCodeItem(AnswerItems(parser.otp_reply)[i]))
              => parser.llm_otps = <<>>
    /\ (parser.op = "extract_links_llm" /\ Answered(parser.link_reply)) =>
          /\ parser.pc # "raised"
          /\ (~IsArray(parser.link_reply)
                \/ \E i \in 1..Len(AnswerItems(parser.link_reply)) :
                      ~GoodLinkItem(AnswerItems(parser.link_reply)[i]))
              => parser.llm_links = <<>>

\* The elements among the first cap ones that the loop keeps: objects whose
\* code or url is valid.
KeptCodeItems(reply) ==
    SelectSeq(Truncate(AnswerItems(reply), 10),
              LAMBDA tok : tok.t = "object" /\ isdigit(tok.item.code)
                           /\ Len(tok.item.code) \in 4..8)

KeptLinkItems(reply) ==
    SelectSeq(Truncate(AnswerItems(reply), 20),
              LAMBDA tok : tok.t = "object"
                           /\ tok.item.url.scheme \in {"http://", "https://"}
                           /\ tok.item.url.length <= 2000)

\* C18 as amended: the fallback returns an empty result without raising if
\* the response does not start with "[" or is no JSON array; an element that
\* is no object or whose code (url) is invalid is skipped and the other
\* elements are returned in their order (one code that is not all digits
\* among otherwise valid codes yields the valid codes); only a kept element
\* whose confidence is no number empties the whole result.
C18_InvalidElementsSkipped ==
    /\ (parser.op = "extract_otps_llm" /\ Answered(parser.otp_reply)) =>
          LET kept == KeptCodeItems(parser.otp_reply)
          IN /\ parser.pc # "raised"
             /\ ~IsArray(parser.otp_reply) => parser.llm_otps = <<>>
             /\ IF \E i \in 1..Len(kept) : kept[i].item.confidence.kind = "text"
                THEN parser.llm_otps = <<>>
                ELSE /\ Len(parser.llm_otps) = Len(kept)
                     /\ \A i \in 1..Len(kept) :
                           parser.llm_otps[i].code = kept[i].item.code
    /\ (parser.op = "extract_links_llm" /\ Answered(parser.link_reply)) =>
          LET kept == KeptLinkItems(parser.link_reply)
          IN /\ parser.pc # "raised"
             /\ ~IsArray(parser.link_reply) => parser.llm_links = <<>>
             /\ IF \E i \in 1..Len(kept) : kept[i].item.confidence.kind = "text"
                THEN parser.llm_links = <<>>
                ELSE /\ Len(parser.llm_links) = Len(kept)
                     /\ \A i \in 1..Len(kept) :
                           parser.llm_links[i].url = kept[i].item.url

\* One code that is not all digits beside a valid code: the valid code is
\* returned.
C18_Witness ==
    /\ parser.op = "extract_otps_llm"
    /\ Answered(parser.otp_reply)
    /\ Len(AnswerItems(parser.otp_reply)) = 2
    /\ AnswerItems(parser.otp_reply)[1].item.code = CodeAlpha
    /\ AnswerItems(parser.otp_reply)[2].item.code = Code6
    /\ Len(parser.llm_otps) = 1
    /\ parser.llm_otps[1].code = Code6

\* C19: every item the fallback returns is well formed and the lists are
\* capped: at most 10 codes, each all digits, of length 4 to 8, with a
\* confidence within [0, 1]; at most 20 links, each with a URL starting with
\* http:// or https:// of at most 2000 characters, a kind of the LinkType set
\* (generic for an unknown kind) and a confidence within [0, 1].
C19_FallbackItemsWellFormed ==
    /\ parser.op = "extract_otps_llm" =>
          /\ Len(parser.llm_otps) <= 10
          /\ \A i \in 1..Len(parser.llm_otps) :
                LET otp == parser.llm_otps[i]
                IN /\ \A j \in 1..Len(otp.code) : otp.code[j] \in DigitChars
                   /\ Len(otp.code) \in 4..8
                   /\ otp.confidence \in 0..100
    /\ parser.op = "extract_links_llm" =>
          /\ Len(parser.llm_links) <= 20
          /\ \A i \in 1..Len(parser.llm_links) :
                LET link == parser.llm_links[i]
                IN /\ link.url.scheme \in {"http://", "https://"}
                   /\ link.url.length <= 2000
                   /\ link.link_type \in LinkTypes
                   /\ link.confidence \in 0..100
                   /\ (parser.link_reply.content # <<>> =>
                         \A j \in 1..Len(AnswerItems(parser.link_reply)) :
                            LET tok == AnswerItems(parser.link_reply)[j]
                            IN (tok.t = "object" /\ tok.item.url = link.url
                                  /\ tok.item.link_type \notin LinkTypes
                                  /\ Len(AnswerItems(parser.link_reply)) = 1)
                               => link.link_type = "generic")

\* An answer of more than 10 codes gave 10, and one of more than 20 links 20.
C19_Witness ==
    \/ /\ parser.op = "extract_otps_llm"
       /\ Len(AnswerItems(parser.otp_reply)) = 11
       /\ Len(parser.llm_otps) = 10
    \/ /\ parser.op = "extract_links_llm"
       /\ Len(AnswerItems(parser.link_reply)) = 21
       /\ Len(parser.llm_links) = 20

\* The key of an entry in the merge applied last.
KeyOf(x) == IF parser.op = "merge_otps" THEN x.code ELSE x.url

EngineEntries ==
    IF parser.op = "merge_otps" THEN parser.regex_otps ELSE parser.regex_links

FallbackEntries ==
    IF parser.op = "merge_otps" THEN parser.llm_otps ELSE parser.llm_links

\* C20: in the output of _merge_otps and _merge_links, for a key (code or
\* URL) present in the engine's and in the fallback's results, the entry is
\* the fallback's only if its confidence is strictly greater than the
\* engine's, otherwise the engine's entry is kept; each key appears exactly
\* once, and the output is sorted by confidence descending.
C20_MergeRule ==
    parser.op \in {"merge_otps", "merge_links"} =>
        LET out == parser.merged
            engine == EngineEntries
            fallback == FallbackEntries
        IN /\ \A i, j \in 1..Len(out) : i # j => KeyOf(out[i]) # KeyOf(out[j])
           /\ {KeyOf(out[i]) : i \in 1..Len(out)} =
                 {KeyOf(engine[i]) : i \in 1..Len(engine)}
                 \cup {KeyOf(fallback[i]) : i \in 1..Len(fallback)}
           /\ \A i, j \in 1..Len(out) : i < j => out[i].confidence >= out[j].confidence
           /\ \A e \in 1..Len(engine) : \A o \in 1..Len(out) :
                 (KeyOf(out[o]) = KeyOf(engine[e])
                    /\ \E f \in 1..Len(fallback) : KeyOf(fallback[f]) = KeyOf(engine[e])) =>
                    IF \E f \in 1..Len(fallback) :
                          /\ KeyOf(fallback[f]) = KeyOf(engine[e])
                          /\ fallback[f].confidence > engine[e].confidence
                    THEN /\ out[o].method = "llm"
                         /\ out[o].confidence > engine[e].confidence
                         /\ \E f \in 1..Len(fallback) : out[o] = fallback[f]
                    ELSE out[o] = engine[e]

\* Engine 0.5 and fallback 0.5 for one code: the engine's entry is kept.
C20_Witness ==
    /\ parser.op = "merge_otps"
    /\ Len(parser.regex_otps) = 1
    /\ Len(parser.llm_otps) = 1
    /\ parser.regex_otps[1].code = parser.llm_otps[1].code
    /\ parser.regex_otps[1].confidence = 50
    /\ parser.llm_otps[1].confidence = 50
    /\ parser.merged = parser.regex_otps

----------------------------------------------------------------------------
(* The regex engine applied to texts *)

OtpMatch(pattern, code, strong, weak) ==
    [pattern |-> pattern, code |-> code, strong |-> strong, weak |-> weak,
     context |-> 100, position |-> 0]

\* Matches of the explicit pattern 1, of the bare 6-digit pattern 9 and of
\* the bare 4-digit pattern 10.
OtpMatches ==
    { OtpMatch(p[1], p[2], c[1], c[2]) :
        p \in { <<1, Code6>>, <<1, CodeRepeated>>, <<1, Code4>>, <<9, Code6>> },
        c \in { <<FALSE, FALSE>>, <<TRUE, FALSE>>, <<FALSE, TRUE>> } }
    \cup { OtpMatch(9, CodeRepeated, TRUE, FALSE), OtpMatch(10, Code4, TRUE, TRUE) }

LinkMatch(pattern, url, link_text, context_action, kind_in_url) ==
    [pattern |-> pattern, url |-> url, link_text |-> link_text,
     context_action |-> context_action, kind_in_url |-> kind_in_url,
     context |-> 200, position |-> 0]

HttpResetUrl == Url("http://", "app.example/password/new", 31)

\* Matches of patterns 1 (/verify), 6 (/password), 9 (/unsubscribe) and of
\* the generic pattern 10, which matches every URL.
LinkMatches ==
    { LinkMatch(1, VerifyUrl, "", FALSE, FALSE),
      LinkMatch(1, VerifyUrl, "verify", TRUE, TRUE),
      LinkMatch(1, VerifyUrl, "here", FALSE, FALSE),
      LinkMatch(6, HttpResetUrl, "", FALSE, FALSE),
      LinkMatch(6, HttpResetUrl, "reset", FALSE, TRUE),
      LinkMatch(6, HttpResetUrl, "here", FALSE, FALSE),
      LinkMatch(9, UnsubscribeUrl, "", FALSE, TRUE),
      LinkMatch(10, VerifyUrl, "", FALSE, FALSE),
      LinkMatch(10, VerifyUrl, "", TRUE, FALSE),
      LinkMatch(10, HttpResetUrl, "", FALSE, FALSE),
      LinkMatch(10, HttpResetUrl, "click here", FALSE, FALSE),
      LinkMatch(10, UnsubscribeUrl, "here", TRUE, FALSE) }

\* The texts: at most MaxMatches matches, in the order finditer yields them,
\* each at its own position.
MatchLists(set) ==
    LET lists == UNION { [1..n -> set] : n \in 0..MaxMatches }
        ordered == { l \in lists :
                       \A i \in 1..Len(l) - 1 : l[i].pattern <= l[i + 1].pattern }
    IN { [i \in 1..Len(l) |-> [l[i] EXCEPT !.position = 60 * i]] : l \in ordered }

\* parser.extract_otps_regex(text)
apply_extract_otps_regex ==
    /\ parser.op = "extract_otps_regex"
    /\ parser.pc = "called"
    /\ parser' = [parser EXCEPT !.pc = "returned",
                                !.regex_otps = extract_otps_regex(parser.matches)]
    /\ UNCHANGED <<events, webhooks, session, call, task, httpx_compact, check,
                   messages, frames>>

\* parser.extract_links_regex(text)
apply_extract_links_regex ==
    /\ parser.op = "extract_links_regex"
    /\ parser.pc = "called"
    /\ parser' = [parser EXCEPT !.pc = "returned",
                                !.regex_links = extract_links_regex(parser.matches)]
    /\ UNCHANGED <<events, webhooks, session, call, task, httpx_compact, check,
                   messages, frames>>

InitRegex ==
    /\ events = {}
    /\ webhooks = {}
    /\ session = NewSession
    /\ call = IdleCall
    /\ task = <<>>
    /\ httpx_compact = TRUE
    /\ check = NoCheck
    /\ messages = NoMessages
    /\ frames = IdleFrames
    /\ parser \in
          { [NoParse EXCEPT !.op = "extract_otps_regex", !.pc = "called", !.matches = l] :
               l \in MatchLists(OtpMatches) }
          \cup
          { [NoParse EXCEPT !.op = "extract_links_regex", !.pc = "called", !.matches = l] :
               l \in MatchLists(LinkMatches) }

NextRegex ==
    \/ apply_extract_otps_regex
    \/ apply_extract_links_regex

SpecRegex == InitRegex /\ [][NextRegex]_vars

----------------------------------------------------------------------------
(* Properties of the regex engine *)

\* The score of a match of the text parsed.
OtpScore(m) ==
    adjust_otp_confidence(m.code, m.strong, m.weak, Hundredths(otp_patterns[m.pattern]))

\* The first match of a value among the matches that satisfy keep.
FirstOf(code, keep(_)) ==
    LET idx == { i \in 1..Len(parser.matches) :
                   parser.matches[i].code = code /\ keep(parser.matches[i]) }
    IN IF idx = {} THEN 0 ELSE CHOOSE i \in idx : \A j \in idx : i <= j

ReturnedOtps == parser.op = "extract_otps_regex" /\ parser.pc = "returned"

\* C21 as claimed: each code value appears at most once in the result of
\* extract_otps_regex, and the entry kept for a value is the one of the first
\* match of that value; every later match of the value is ignored, also when
\* the first match was scored below 0.5 (the value is then absent).
C21_FirstMatchWins ==
    ReturnedOtps =>
        /\ \A i, j \in 1..Len(parser.regex_otps) :
              i # j => parser.regex_otps[i].code # parser.regex_otps[j].code
        /\ \A k \in 1..Len(parser.matches) :
              LET code == parser.matches[k].code
                  first == FirstOf(code, LAMBDA m : TRUE)
                  kept == { i \in 1..Len(parser.regex_otps) :
                              parser.regex_otps[i].code = code }
              IN IF OtpScore(parser.matches[first]) >= 50000
                 THEN \E i \in kept :
                         parser.regex_otps[i].position = parser.matches[first].position
                 ELSE kept = {}

\* C21 as amended: each code value appears at most once in the result of
\* extract_otps_regex, and the entry kept for a value is the one of the first
\* match of that value, in pattern order then text order, that is scored 0.5
\* or more; the later matches of the value are ignored. A match scored below
\* 0.5 is discarded without marking its value, so a later match of the same
\* value can still be kept.
C21_FirstKeptMatchWins ==
    ReturnedOtps =>
        /\ \A i, j \in 1..Len(parser.regex_otps) :
              i # j => parser.regex_otps[i].code # parser.regex_otps[j].code
        /\ \A k \in 1..Len(parser.matches) :
              LET code == parser.matches[k].code
                  first == FirstOf(code, LAMBDA m : OtpScore(m) >= 50000)
                  kept == { i \in 1..Len(parser.regex_otps) :
                              parser.regex_otps[i].code = code }
              IN IF first # 0
                 THEN \E i \in kept :
                         /\ parser.regex_otps[i].position = parser.matches[first].position
                         /\ parser.regex_otps[i].confidence = OtpScore(parser.matches[first])
                 ELSE kept = {}

\* The first match of a value is scored below 0.5 and discarded, a later one
\* of the same value is kept, and a third one is ignored.
C21_Witness ==
    /\ ReturnedOtps
    /\ Len(parser.matches) = 3
    /\ parser.matches[1].code = parser.matches[2].code
    /\ parser.matches[2].code = parser.matches[3].code
    /\ OtpScore(parser.matches[1]) < 50000
    /\ OtpScore(parser.matches[2]) >= 50000
    /\ OtpScore(parser.matches[3]) >= 50000
    /\ Len(parser.regex_otps) = 1
    /\ parser.regex_otps[1].position = parser.matches[2].position

\* C22: every list the regex engine returns holds only entries of confidence
\* at least 0.5 and at most 1.0 and is sorted by confidence descending.
C22_RegexConfidenceBounds ==
    /\ ReturnedOtps =>
          /\ \A i \in 1..Len(parser.regex_otps) :
                parser.regex_otps[i].confidence \in 50000..100000
          /\ \A i, j \in 1..Len(parser.regex_otps) :
                i < j => parser.regex_otps[i].confidence >= parser.regex_otps[j].confidence
    /\ (parser.op = "extract_links_regex" /\ parser.pc = "returned") =>
          /\ \A i \in 1..Len(parser.regex_links) :
                parser.regex_links[i].confidence \in 50000..100000
          /\ \A i, j \in 1..Len(parser.regex_links) :
                i < j => parser.regex_links[i].confidence >= parser.regex_links[j].confidence

\* Of three matches one is discarded; the two kept come back with the later,
\* boosted up to the cap of 1.0, before the earlier.
C22_Witness ==
    /\ ReturnedOtps
    /\ Len(parser.matches) = 3
    /\ Len(parser.regex_otps) = 2
    /\ parser.regex_otps[1].confidence = 100000
    /\ parser.regex_otps[2].confidence < 100000
    /\ parser.regex_otps[1].position > parser.regex_otps[2].position

\* C11: sign_webhook_payload is a function of (payload, secret) alone: a second
\* call with the same secret and the same key/value pairs, inserted in the same
\* or in another order, returns the same signature as the first.
C11_SignIgnoresKeyOrder ==
    check.op = "sign" => check.signed_other = check.signed

C11_Witness ==
    /\ check.op = "sign"
    /\ check.secret # ""
    /\ Len(check.payload) = 2
    /\ check.other # check.payload
    /\ check.signed # <<>>
    /\ check.signed_other = check.signed

=============================================================================
